---- MODULE Spec2Model ----
(***************************************************************************)
(* A model of ai-context-cli: the project scanner (package context:        *)
(* ProjectScanner.Scan, its cancellation channel and its progress          *)
(* channel), the path filter, the folder statistics (package folder) and   *)
(* the selection of files for the generated context (ContextGenerator).    *)
(* A string is a sequence of one-character strings, so that the path       *)
(* functions (Base, Ext, Contains, Match) compute on characters as the     *)
(* Go code does.                                                           *)
(***************************************************************************)
EXTENDS Integers, Sequences, FiniteSets, TLC

\* ------------------------------------------------------------- bounds
\* Number of filesystem entries below the scan root.
NumNodes == 2
\* Number of Scan() calls made on one scanner in the scanner specification.
MaxScans == 2
\* Number of Scan() calls made on one scanner in the progress specification.
MaxProgressScans == 27
\* Number of events the consumer receives in the progress specification.
MaxReceives == 3
\* Number of filesystem entries below the root in the trees with hidden entries.
HiddenNodes == 2
\* How far below and above a cap the counted files and lines range.
CapMargin == 30
\* Length of the file lists given to the context generator.
MaxFiles == 3

\* ---------------------------------------------------------- constants
\* make(chan ScanProgress, 100)
ProgressCap == 100
\* make(chan bool, 1)
CancelCap == 1
\* processResults: maxLargest := 10
MaxLargest == 10
\* countLines: if lines > 100000 { break }
LineCap == 100000
\* estimateFileCount: if count > 10000 { return fs.SkipAll }
EstimateCap == 10000

\* ------------------------------------------------------------ strings
Min2(a, b) == IF a < b THEN a ELSE b
\* The elements of a sequence
Range(seq) == { seq[k] : k \in 1..Len(seq) }

Upper == <<"A", "B", "C", "D", "E", "F", "G", "H", "I", "J", "K", "L", "M", "N", "O", "P", "Q", "R", "S", "T", "U", "V", "W", "X", "Y", "Z">>
Lower == <<"a", "b", "c", "d", "e", "f", "g", "h", "i", "j", "k", "l", "m", "n", "o", "p", "q", "r", "s", "t", "u", "v", "w", "x", "y", "z">>
\* The characters of the model's names in byte order (for os.ReadDir's sort).
ByteOrder == <<"*", "-", ".", "/", "0", "1", "2", "3", "4", "5", "6", "7", "8", "9", "A", "B", "C", "D", "E", "F", "G", "H", "I", "J", "K", "L", "M", "N", "O", "P", "Q", "R", "S", "T", "U", "V", "W", "X", "Y", "Z", "_", "a", "b", "c", "d", "e", "f", "g", "h", "i", "j", "k", "l", "m", "n", "o", "p", "q", "r", "s", "t", "u", "v", "w", "x", "y", "z">>

IndexIn(c, seq) == IF \E i \in 1..Len(seq) : seq[i] = c
                   THEN CHOOSE i \in 1..Len(seq) : seq[i] = c
                   ELSE 0

\* strings.ToLower, one character: the table for the model's characters
Chars == { ByteOrder[i] : i \in 1..Len(ByteOrder) }
LowerOf == [c \in Chars |->
              IF IndexIn(c, Upper) > 0 THEN Lower[IndexIn(c, Upper)] ELSE c]
\* strings.ToLower
ToLower(s) == [i \in 1..Len(s) |-> LowerOf[s[i]]]

\* strings.HasPrefix
HasPrefix(s, p) == Len(s) >= Len(p) /\ SubSeq(s, 1, Len(p)) = p
\* strings.HasSuffix
HasSuffix(s, p) == Len(s) >= Len(p) /\ SubSeq(s, Len(s) - Len(p) + 1, Len(s)) = p
\* strings.Contains
Contains(s, p) == \E i \in 1..(Len(s) - Len(p) + 1) : SubSeq(s, i, i + Len(p) - 1) = p
\* strings.TrimSuffix
TrimSuffix(s, p) == IF HasSuffix(s, p) THEN SubSeq(s, 1, Len(s) - Len(p)) ELSE s

\* Position of the last "/" of a path, 0 when it has none.
LastSlash(path) == IF \E i \in 1..Len(path) : path[i] = "/"
                   THEN CHOOSE i \in 1..Len(path) :
                          path[i] = "/" /\ \A j \in (i+1)..Len(path) : path[j] # "/"
                   ELSE 0
\* filepath.Base, for a clean path that does not end in a separator
Base(path) == SubSeq(path, LastSlash(path) + 1, Len(path))
\* filepath.Ext: the suffix from the final dot of the final element
Ext(path) ==
  LET b == Base(path)
  IN  IF \E i \in 1..Len(b) : b[i] = "."
      THEN SubSeq(b, CHOOSE i \in 1..Len(b) :
                        b[i] = "." /\ \A j \in (i+1)..Len(b) : b[j] # ".", Len(b))
      ELSE <<>>
\* filepath.Join of a clean directory path and a name
Join(dir, name) == dir \o <<"/">> \o name

\* filepath.Match for patterns made of literals, "*" and "?": whether pat from
\* position i on matches s from position j on
RECURSIVE MatchFrom(_, _, _, _)
MatchFrom(pat, s, i, j) ==
  IF i > Len(pat) THEN j > Len(s)
  ELSE IF pat[i] = "*"
       THEN MatchFrom(pat, s, i + 1, j)
            \/ (j <= Len(s) /\ s[j] # "/" /\ MatchFrom(pat, s, i, j + 1))
  ELSE IF pat[i] = "?"
       THEN j <= Len(s) /\ s[j] # "/" /\ MatchFrom(pat, s, i + 1, j + 1)
  ELSE j <= Len(s) /\ s[j] = pat[i] /\ MatchFrom(pat, s, i + 1, j + 1)

Match(pat, s) == MatchFrom(pat, s, 1, 1)

\* Lexicographic byte order of two names
StrLess(a, b) ==
  \E k \in 1..Len(b) :
     /\ \A j \in 1..(k - 1) : j <= Len(a) /\ a[j] = b[j]
     /\ \/ k > Len(a)
        \/ (k <= Len(a) /\ IndexIn(a[k], ByteOrder) < IndexIn(b[k], ByteOrder))

\* ------------------------------------------------------- path filter
\* One exclude pattern of shouldExcludePath's loop
PatternExcludes(pattern, path) ==
  \/ /\ Contains(pattern, <<"/", "*", "*">>)
     /\ Contains(path, TrimSuffix(pattern, <<"/", "*", "*">>))
  \/ Match(pattern, Base(path))
  \/ Match(pattern, path)

\* Mutant: the hidden rule looks at the path, not at its base name
shouldExcludePathHiddenPrefix(cfg, path, isDir) ==
  \/ (~cfg.IncludeHidden /\ HasPrefix(path, <<".">>))
  \/ (~isDir /\ \E i \in 1..Len(cfg.ExcludeExtensions) :
                   ToLower(Ext(path)) = cfg.ExcludeExtensions[i])
  \/ \E i \in 1..Len(cfg.ExcludePatterns) :
        PatternExcludes(cfg.ExcludePatterns[i], path)

\* ProjectScanner.shouldExcludePath
shouldExcludePath(cfg, path, isDir) ==
  \/ (~cfg.IncludeHidden /\ HasPrefix(Base(path), <<".">>))
  \/ (~isDir /\ \E i \in 1..Len(cfg.ExcludeExtensions) :
                   ToLower(Ext(path)) = cfg.ExcludeExtensions[i])
  \/ \E i \in 1..Len(cfg.ExcludePatterns) :
        PatternExcludes(cfg.ExcludePatterns[i], path)

TextExtensions ==
  { <<".", "t", "x", "t">>, <<".", "m", "d">>, <<".", "g", "o">>, <<".", "j", "s">>, <<".", "t", "s">>, <<".", "p", "y">>, <<".", "j", "a", "v", "a">>, <<".", "c">>, <<".", "c", "p", "p">>,
    <<".", "h">>, <<".", "h", "p", "p">>, <<".", "c", "s">>, <<".", "r", "b">>, <<".", "p", "h", "p">>, <<".", "h", "t", "m", "l">>, <<".", "c", "s", "s">>, <<".", "s", "c", "s", "s">>,
    <<".", "j", "s", "o", "n">>, <<".", "x", "m", "l">>, <<".", "y", "a", "m", "l">>, <<".", "y", "m", "l">>, <<".", "t", "o", "m", "l">>, <<".", "i", "n", "i">>, <<".", "c", "f", "g">>,
    <<".", "s", "h">>, <<".", "b", "a", "t">>, <<".", "p", "s", "1">>, <<".", "s", "q", "l">>, <<".", "r">>, <<".", "s", "c", "a", "l", "a">>, <<".", "k", "t">>, <<".", "r", "s">>,
    <<".", "j", "s", "x">>, <<".", "t", "s", "x">>, <<".", "v", "u", "e">>, <<".", "s", "v", "e", "l", "t", "e">>, <<".", "d", "a", "r", "t">>, <<".", "s", "w", "i", "f", "t">>, <<".", "m">> }
\* ProjectScanner.isTextFile
isTextFile(ext) == ext \in TextExtensions \/ ext = <<>>

\* ProjectScanner.countLines on a file of n lines: the loop stops after the
\* increment that takes the count above the cap.
countLines(n) == IF n > LineCap THEN LineCap + 1 ELSE n

\* ------------------------------------------------------------- state
VARIABLES
  fs,          \* the directory tree below the root: entries 1..fs.n, root 0
  config,      \* ProjectScanner.config
  cancel,      \* number of values buffered in ProjectScanner.cancel
  progress,    \* contents of the channel ProjectScanner.progress
  pc,          \* position of the goroutine that runs Scan()
  stack,       \* the active scanDirectory calls, innermost last
  result,      \* Scan's local *ScanResult
  fileInfo,    \* scanDirectory's local fileInfo, as last assigned
  estimated,   \* Scan's local estimatedFiles
  ret,         \* what the last Scan() call returned
  scans,       \* number of Scan() calls started on this scanner
  produced,    \* number of sendProgress calls made so far (numbers the events)
  dropped,     \* numbers of the events sendProgress did not put on the channel
  delivered,   \* numbers of the events a consumer received
  visited,     \* entries the current Scan's loop has processed
  listed,      \* directories whose entries the current Scan has read
  records,     \* the FileInfo scanFile returned for each visited entry
  cancelMid,   \* Cancel() was called in this Scan with an entry still unprocessed
  cancelInScan, \* Cancel() was called while this Scan was running
  call,        \* a function of the packages applied on its own: its name,
               \* its arguments and, once it has returned, its result
  ft,          \* the FolderTree of the folder browser
  appModel,    \* the Model of the terminal application
  navStack,    \* a NavigationStack
  toastManager, \* a ToastManager
  progressModel, \* a ProgressModel
  contextPreview, \* a ContextPreviewModel
  monitor      \* position of the goroutine startProjectScan starts to drain
               \* the progress channel

\* The components of the user interface used on their own, and the monitor
components == <<navStack, toastManager, progressModel, contextPreview, monitor>>

\* What the scanner's operations leave alone
others == <<call, ft, appModel, components>>

vars == <<fs, config, cancel, progress, pc, stack, result, fileInfo, estimated,
          ret, scans, produced, dropped, delivered, visited, listed, records,
          cancelMid, cancelInScan, others>>

\* ------------------------------------------------------------ inputs
DigitOf(i) == <<<<"0", "1", "2", "3", "4", "5", "6", "7", "8", "9">>[i + 1]>>
GoName(i) == <<"a">> \o DigitOf(i) \o <<".", "g", "o">>
MdName(i) == <<"m">> \o DigitOf(i) \o <<".", "m", "d">>
LogName(i) == <<"l">> \o DigitOf(i) \o <<".", "l", "o", "g">>
DirName(i) == <<"d">> \o DigitOf(i)

\* The configurations scanned: DefaultScanConfig's shape with short lists.
MaxDepths == (0 - 1)..(NumNodes - 1)
Configs ==
  { [RootPath |-> <<"r">>,
     ExcludePatterns |-> << <<"n", "o", "d", "e", "_", "m", "o", "d", "u", "l", "e", "s", "/", "*", "*">>, <<"*", ".", "l", "o", "g">> >>,
     ExcludeExtensions |-> << <<".", "e", "x", "e">> >>,
     MaxDepth |-> d,
     MaxFileSize |-> 2,
     IncludeHidden |-> FALSE,
     FollowSymlinks |-> FALSE] : d \in MaxDepths }

Entry(name, isDir, size, infoErr, readErr) ==
  [name |-> name, isDir |-> isDir, size |-> size, lines |-> 1,
   infoErr |-> infoErr, readErr |-> readErr]

\* What entry i may be: a file below, at or above the size limit, a file an
\* exclude pattern matches (small or large), a file or directory whose Info()
\* fails, a directory, a directory an exclude pattern matches, a directory
\* that cannot be listed. A directory's own size is above the limit.
EntryKinds(i) ==
  { Entry(GoName(i), FALSE, s, FALSE, FALSE) : s \in 2..3 }
  \cup { Entry(MdName(i), FALSE, 1, FALSE, FALSE) }
  \cup { Entry(LogName(i), FALSE, s, FALSE, FALSE) : s \in {1, 3} }
  \cup { Entry(GoName(i), FALSE, 0, TRUE, FALSE),
         Entry(DirName(i), TRUE, 3, FALSE, FALSE),
         Entry(<<"n", "o", "d", "e", "_", "m", "o", "d", "u", "l", "e", "s">>, TRUE, 3, FALSE, FALSE),
         Entry(DirName(i), TRUE, 3, TRUE, FALSE),
         Entry(DirName(i), TRUE, 3, FALSE, TRUE) }

\* The trees of n entries: entry i lies in the root or in an earlier entry that
\* is a directory, and the entries of one directory have different names.
RECURSIVE TreesOfSize(_)
TreesOfSize(n) ==
  IF n = 0 THEN { [n |-> 0, parent |-> <<>>, node |-> <<>>] }
  ELSE { [n |-> n, parent |-> Append(t.parent, p), node |-> Append(t.node, k)] :
           t \in TreesOfSize(n - 1), p \in 0..(n - 1), k \in EntryKinds(n) }

WellFormed(t) ==
  /\ \A i \in 1..t.n : t.parent[i] = 0 \/ t.node[t.parent[i]].isDir
  /\ \A i, j \in 1..t.n :
        (i # j /\ t.parent[i] = t.parent[j]) => t.node[i].name # t.node[j].name

FileSystemsOfSize(n) ==
  { [n |-> t.n, parent |-> t.parent, node |-> t.node, rootReadErr |-> r] :
      t \in { u \in TreesOfSize(n) : WellFormed(u) }, r \in BOOLEAN }

FileSystems == UNION { FileSystemsOfSize(n) : n \in 0..NumNodes }

\* ------------------------------------------------- the tree, as read
RECURSIVE PathOf(_)
PathOf(i) == IF i = 0 THEN config.RootPath
             ELSE Join(PathOf(fs.parent[i]), fs.node[i].name)

Children(d) == { i \in 1..fs.n : fs.parent[i] = d }

RECURSIVE SortByName(_)
SortByName(S) ==
  IF S = {} THEN <<>>
  ELSE LET m == CHOOSE x \in S :
                  \A y \in S \ {x} : StrLess(fs.node[x].name, fs.node[y].name)
       IN  <<m>> \o SortByName(S \ {m})

\* os.ReadDir: the entries of a directory sorted by file name
ReadDir(d) == SortByName(Children(d))
ReadDirFails(d) == IF d = 0 THEN fs.rootReadErr ELSE fs.node[d].readErr

RECURSIVE SumOver(_, _)
SumOver(S, f) == IF S = {} THEN 0
                 ELSE LET x == CHOOSE y \in S : TRUE
                      IN  f[x] + SumOver(S \ {x}, f)

\* The files filepath.WalkDir's callback counts below directory d
RECURSIVE WalkCount(_)
WalkCount(d) ==
  IF ReadDirFails(d) THEN 0
  ELSE SumOver(Children(d),
         [i \in Children(d) |->
            IF shouldExcludePath(config, PathOf(i), fs.node[i].isDir) THEN 0
            ELSE IF fs.node[i].isDir THEN WalkCount(i) ELSE 1])

\* The counter of estimateFileCount's callback when the walk ends, for a walk
\* that meets n files to count: the callback returns fs.SkipAll after the
\* increment that takes the counter above the cap.
EstimateWalk(n) == Min2(n, EstimateCap + 1)

\* ProjectScanner.estimateFileCount
estimateFileCount ==
  IF shouldExcludePath(config, config.RootPath, TRUE) THEN 0
  ELSE EstimateWalk(WalkCount(0))

\* ----------------------------------------------------------- scanFile
NoReason == [kind |-> "", bytes |-> 0]
\* "Matches exclude pattern"
PatternReason == [kind |-> "Matches exclude pattern", bytes |-> 0]
\* fmt.Sprintf("File too large (%d bytes)", info.Size())
SizeReason(size) == [kind |-> "File too large", bytes |-> size]
\* fmt.Sprintf("Cannot read file info: %v", err)
InfoReason == [kind |-> "Cannot read file info", bytes |-> 0]

\* Mutant: the size limit excludes a file of exactly MaxFileSize bytes
TooLargeInclusive(isDir, size, maxFileSize) == ~isDir /\ size >= maxFileSize

\* The size check of scanFile
TooLarge(isDir, size, maxFileSize) == ~isDir /\ size > maxFileSize

\* Mutant: the size check runs before the exclusion rules
scanFileSizeFirst(i) ==
  LET e    == fs.node[i]
      path == PathOf(i)
      info == [Path |-> path, Size |-> e.size, Lines |-> 0,
               Extension |-> ToLower(Ext(path)), IsDirectory |-> e.isDir,
               IsExcluded |-> FALSE, ExcludeReason |-> NoReason]
  IN  IF e.infoErr
      THEN [Path |-> path, Size |-> 0, Lines |-> 0, Extension |-> <<>>,
            IsDirectory |-> e.isDir, IsExcluded |-> TRUE,
            ExcludeReason |-> InfoReason]
      ELSE IF ~e.isDir /\ e.size > config.MaxFileSize
      THEN [info EXCEPT !.IsExcluded = TRUE, !.ExcludeReason = SizeReason(e.size)]
      ELSE IF shouldExcludePath(config, path, e.isDir)
      THEN [info EXCEPT !.IsExcluded = TRUE, !.ExcludeReason = PatternReason]
      ELSE IF ~e.isDir /\ isTextFile(info.Extension)
      THEN [info EXCEPT !.Lines = countLines(e.lines)]
      ELSE info

\* Mutant: a failure of entry.Info() is not checked
scanFileInfoUnchecked(i) ==
  LET e    == fs.node[i]
      path == PathOf(i)
      info == [Path |-> path, Size |-> e.size, Lines |-> 0,
               Extension |-> ToLower(Ext(path)), IsDirectory |-> e.isDir,
               IsExcluded |-> FALSE, ExcludeReason |-> NoReason]
  IN  IF shouldExcludePath(config, path, e.isDir)
      THEN [info EXCEPT !.IsExcluded = TRUE, !.ExcludeReason = PatternReason]
      ELSE IF ~e.isDir /\ e.size > config.MaxFileSize
      THEN [info EXCEPT !.IsExcluded = TRUE, !.ExcludeReason = SizeReason(e.size)]
      ELSE IF ~e.isDir /\ isTextFile(info.Extension)
      THEN [info EXCEPT !.Lines = countLines(e.lines)]
      ELSE info

\* ProjectScanner.scanFile, for the entry i of the tree
scanFile(i) ==
  LET e    == fs.node[i]
      path == PathOf(i)
      info == [Path |-> path, Size |-> e.size, Lines |-> 0,
               Extension |-> ToLower(Ext(path)), IsDirectory |-> e.isDir,
               IsExcluded |-> FALSE, ExcludeReason |-> NoReason]
  IN  IF e.infoErr
      THEN [Path |-> path, Size |-> 0, Lines |-> 0, Extension |-> <<>>,
            IsDirectory |-> e.isDir, IsExcluded |-> TRUE,
            ExcludeReason |-> InfoReason]
      ELSE IF shouldExcludePath(config, path, e.isDir)
      THEN [info EXCEPT !.IsExcluded = TRUE, !.ExcludeReason = PatternReason]
      ELSE IF TooLarge(e.isDir, e.size, config.MaxFileSize)
      THEN [info EXCEPT !.IsExcluded = TRUE, !.ExcludeReason = SizeReason(e.size)]
      ELSE IF ~e.isDir /\ isTextFile(info.Extension)
      THEN [info EXCEPT !.Lines = countLines(e.lines)]
      ELSE info

\* -------------------------------------------------------- ScanResult
EmptyResult ==
  [TotalFiles |-> 0, TotalDirectories |-> 0, TotalSize |-> 0, TotalLines |-> 0,
   ExcludedFiles |-> 0, Files |-> <<>>, Extensions |-> <<>>, LargestFiles |-> <<>>]

\* result.Extensions[ext]++
IncrementKey(m, k) ==
  [x \in DOMAIN m \cup {k} |->
     IF x = k THEN (IF k \in DOMAIN m THEN m[k] ELSE 0) + 1 ELSE m[x]]

\* The entry is a directory: scanDirectory counts it
CountDirectory(res) == [res EXCEPT !.TotalDirectories = @ + 1]

\* Mutant: an added file is not counted in the extension histogram
CountFileNoHistogram(res, info) ==
  IF info.IsExcluded
  THEN [res EXCEPT !.ExcludedFiles = @ + 1]
  ELSE [res EXCEPT !.TotalFiles = @ + 1,
                   !.TotalSize = @ + info.Size,
                   !.TotalLines = @ + info.Lines,
                   !.Files = Append(@, info)]

\* The entry is not a directory: scanDirectory counts it as excluded or adds it
CountFile(res, info) ==
  IF info.IsExcluded
  THEN [res EXCEPT !.ExcludedFiles = @ + 1]
  ELSE [res EXCEPT !.TotalFiles = @ + 1,
                   !.TotalSize = @ + info.Size,
                   !.TotalLines = @ + info.Lines,
                   !.Extensions = IncrementKey(@, info.Extension),
                   !.Files = Append(@, info)]

\* Mutant: scanDirectory recurses into every directory entry
RecursesIntoExcluded(info) == info.IsDirectory

\* scanDirectory recurses into a directory entry unless it is excluded
Recurses(info) == info.IsDirectory /\ ~info.IsExcluded

\* Insertion of x into a sequence sorted by Size, largest first, after its equals
RECURSIVE InsertBySize(_, _)
InsertBySize(sorted, x) ==
  IF sorted = <<>> THEN <<x>>
  ELSE IF x.Size > Head(sorted).Size THEN <<x>> \o sorted
  ELSE <<Head(sorted)>> \o InsertBySize(Tail(sorted), x)

RECURSIVE SortBySize(_)
SortBySize(files) ==
  IF files = <<>> THEN <<>>
  ELSE InsertBySize(SortBySize(SubSeq(files, 1, Len(files) - 1)), files[Len(files)])

\* ProjectScanner.processResults
processResults(res) ==
  [res EXCEPT !.LargestFiles =
     SubSeq(SortBySize(res.Files), 1, Min2(Len(res.Files), MaxLargest))]

\* ------------------------------------------------------- the channels
\* Mutant: sendProgress is a plain channel send, which waits for room
CanSendWhenRoom(ch) == Len(ch) < ProgressCap

\* sendProgress's select has a default case: it never waits for room
CanSend(ch) == TRUE

\* ProjectScanner.sendProgress: the event is put on the channel if it has room
sendProgress(ch, ev) == IF Len(ch) < ProgressCap THEN Append(ch, ev) ELSE ch

\* ProjectScanner.Cancel: a value is buffered unless the channel is full
CancelSend(n) == IF n < CancelCap THEN n + 1 ELSE n

\* scanDirectory's select on ps.cancel: a buffered value is received
CancelObserved(n) == n > 0

Emit(phase, file, processed, est) ==
  /\ CanSend(progress)
  /\ progress' = sendProgress(progress,
                   [n |-> produced + 1, CurrentPhase |-> phase, CurrentFile |-> file,
                    ProcessedFiles |-> processed, TotalEstimated |-> est])
  /\ produced' = produced + 1
  /\ dropped' = IF \E k \in 1..Len(progress') : progress'[k].n = produced + 1
                THEN dropped ELSE dropped \cup {produced + 1}

\* ------------------------------------------------------------- Scan
Nil == [nil |-> TRUE]
NotReturned == [returned |-> FALSE, err |-> "", result |-> Nil]

\* No component of the user interface has been constructed, no monitor started
NoComponents ==
  /\ navStack = Nil
  /\ toastManager = Nil
  /\ progressModel = Nil
  /\ contextPreview = Nil
  /\ monitor = Nil

\* Mutant: Scan() returns the partial result along with the error
ScanReturnPartial(err, res) == [returned |-> TRUE, err |-> err, result |-> res]

\* What Scan() returns given scanDirectory's error ("" for nil)
ScanReturn(err, res) ==
  IF err # "" THEN [returned |-> TRUE, err |-> err, result |-> Nil]
  ELSE [returned |-> TRUE, err |-> "", result |-> res]

\* Mutant: the depth limit is off by one
TooDeepInclusive(depth, maxDepth) == depth >= maxDepth

\* scanDirectory: if depth > ps.config.MaxDepth { return nil }
TooDeep(depth, maxDepth) == depth > maxDepth

Top == stack[Len(stack)]
Frame(d, depth) == [dir |-> d, depth |-> depth, entries |-> <<>>, idx |-> 1]

\* Some active scanDirectory call still has an entry to process
EntryUnprocessed ==
  \E k \in 1..Len(stack) : stack[k].idx <= Len(stack[k].entries)

\* No function is being applied on its own
NoCall == [fn |-> "none"]

\* A new scanner (NewProjectScanner) over one tree and one configuration
NewScanner(trees, configs) ==
  /\ fs \in trees
  /\ config \in configs
  /\ cancel = 0
  /\ progress = <<>>
  /\ pc = "idle"
  /\ stack = <<>>
  /\ result = EmptyResult
  /\ fileInfo = Nil
  /\ estimated = 0
  /\ ret = NotReturned
  /\ scans = 0
  /\ produced = 0
  /\ dropped = {}
  /\ delivered = {}
  /\ visited = {}
  /\ listed = {}
  /\ records = <<>>
  /\ cancelMid = FALSE
  /\ cancelInScan = FALSE

InitOver(trees, configs) ==
  NewScanner(trees, configs) /\ call = NoCall /\ ft = Nil /\ appModel = Nil /\ NoComponents

Init == InitOver(FileSystems, Configs)

\* Scan() is called: the result is allocated and the first event sent
ScanBegin(limit) ==
  /\ pc = "idle"
  /\ scans < limit
  /\ scans' = scans + 1
  /\ result' = EmptyResult
  /\ Emit("Initializing scan...", <<>>, 0, 0)
  /\ pc' = "estimate"
  /\ stack' = <<>>
  /\ ret' = NotReturned
  /\ fileInfo' = Nil
  /\ visited' = {}
  /\ listed' = {}
  /\ records' = <<>>
  /\ cancelMid' = FALSE
  /\ cancelInScan' = FALSE
  /\ UNCHANGED <<others, fs, config, cancel, estimated, delivered>>

\* The first pass, its event, and the call scanDirectory(RootPath, 0, ...)
ScanEstimate ==
  /\ pc = "estimate"
  /\ \E est \in {estimateFileCount} :
        /\ estimated' = est
        /\ Emit("Scanning estimated files...", <<>>, 0, est)
  /\ stack' = <<Frame(0, 0)>>
  /\ pc' = "enter"
  /\ UNCHANGED <<others, fs, config, cancel, result, fileInfo, ret, scans, delivered,
                 visited, listed, records, cancelMid, cancelInScan>>

\* A scanDirectory call returns nil to its caller
ReturnNil ==
  /\ stack' = SubSeq(stack, 1, Len(stack) - 1)
  /\ pc' = IF Len(stack) = 1 THEN "finish" ELSE "loop"

\* A scanDirectory call returns an error, which every caller passes up to Scan
ReturnError(err) ==
  /\ stack' = <<>>
  /\ pc' = "idle"
  /\ ret' = ScanReturn(err, result)

\* scanDirectory's entry: the depth limit
EnterTooDeep ==
  /\ pc = "enter"
  /\ TooDeep(Top.depth, config.MaxDepth)
  /\ ReturnNil
  /\ UNCHANGED <<others, fs, config, cancel, progress, result, fileInfo, estimated, ret,
                 scans, produced, dropped, delivered, visited, listed, records,
                 cancelMid, cancelInScan>>

\* scanDirectory's entry: a cancellation is received
EnterCancelled ==
  /\ pc = "enter"
  /\ ~TooDeep(Top.depth, config.MaxDepth)
  /\ CancelObserved(cancel)
  /\ cancel' = cancel - 1
  /\ ReturnError("scan cancelled")
  /\ UNCHANGED <<others, fs, config, progress, result, fileInfo, estimated, scans,
                 produced, dropped, delivered, visited, listed, records,
                 cancelMid, cancelInScan>>

\* scanDirectory's entry: os.ReadDir fails
EnterReadError ==
  /\ pc = "enter"
  /\ ~TooDeep(Top.depth, config.MaxDepth)
  /\ ~CancelObserved(cancel)
  /\ ReadDirFails(Top.dir)
  /\ ReturnError("failed to read directory")
  /\ UNCHANGED <<others, fs, config, cancel, progress, result, fileInfo, estimated, scans,
                 produced, dropped, delivered, visited, listed, records,
                 cancelMid, cancelInScan>>

\* scanDirectory's entry: the directory is listed
EnterListed ==
  /\ pc = "enter"
  /\ ~TooDeep(Top.depth, config.MaxDepth)
  /\ ~CancelObserved(cancel)
  /\ ~ReadDirFails(Top.dir)
  /\ stack' = [stack EXCEPT ![Len(stack)].entries = ReadDir(Top.dir)]
  /\ listed' = listed \cup {Top.dir}
  /\ pc' = "loop"
  /\ UNCHANGED <<others, fs, config, cancel, progress, result, fileInfo, estimated, ret,
                 scans, produced, dropped, delivered, visited, records,
                 cancelMid, cancelInScan>>

\* One iteration of scanDirectory's loop
ProcessEntry ==
  /\ pc = "loop"
  /\ Top.idx <= Len(Top.entries)
  /\ \E i \in {Top.entries[Top.idx]} :
     \E info \in {scanFile(i)} :
     \E next \in {[stack EXCEPT ![Len(stack)].idx = @ + 1]} :
        /\ Emit("Scanning files...", info.Path,
                result.TotalFiles + result.ExcludedFiles, estimated)
        /\ fileInfo' = info
        /\ visited' = visited \cup {i}
        /\ records' = [x \in DOMAIN records \cup {i} |->
                         IF x = i THEN info ELSE records[x]]
        /\ IF info.IsDirectory
           THEN /\ result' = CountDirectory(result)
                /\ IF Recurses(info)
                   THEN /\ stack' = Append(next, Frame(i, Top.depth + 1))
                        /\ pc' = "enter"
                   ELSE /\ stack' = next
                        /\ pc' = "loop"
           ELSE /\ result' = CountFile(result, info)
                /\ stack' = next
                /\ pc' = "loop"
  /\ UNCHANGED <<others, fs, config, cancel, estimated, ret, scans, delivered, listed,
                 cancelMid, cancelInScan>>

\* scanDirectory's loop is over
LoopDone ==
  /\ pc = "loop"
  /\ Top.idx > Len(Top.entries)
  /\ ReturnNil
  /\ UNCHANGED <<others, fs, config, cancel, progress, result, fileInfo, estimated, ret,
                 scans, produced, dropped, delivered, visited, listed, records,
                 cancelMid, cancelInScan>>

\* Scan's post-processing, its last event and its return
ScanFinish ==
  /\ pc = "finish"
  /\ result' = processResults(result)
  /\ Emit("Scan completed!", <<>>, result.TotalFiles, estimated)
  /\ ret' = ScanReturn("", result')
  /\ pc' = "idle"
  /\ UNCHANGED <<others, fs, config, cancel, stack, fileInfo, estimated, scans, delivered,
                 visited, listed, records, cancelMid, cancelInScan>>

\* ProjectScanner.Cancel, called from another goroutine at any time
Cancel ==
  /\ cancel' = CancelSend(cancel)
  /\ cancelInScan' = (cancelInScan \/ pc # "idle")
  /\ cancelMid' = (cancelMid \/ (pc # "idle" /\ EntryUnprocessed))
  /\ UNCHANGED <<others, fs, config, progress, pc, stack, result, fileInfo, estimated, ret,
                 scans, produced, dropped, delivered, visited, listed, records>>

\* A consumer receives from GetProgressChannel()
Receive ==
  /\ progress # <<>>
  /\ Cardinality(delivered) < MaxReceives
  /\ progress' = Tail(progress)
  /\ delivered' = delivered \cup {Head(progress).n}
  /\ UNCHANGED <<others, fs, config, cancel, pc, stack, result, fileInfo, estimated, ret,
                 scans, produced, dropped, visited, listed, records, cancelMid,
                 cancelInScan>>

ScanStep ==
  \/ ScanEstimate
  \/ EnterTooDeep
  \/ EnterCancelled
  \/ EnterReadError
  \/ EnterListed
  \/ ProcessEntry
  \/ LoopDone
  \/ ScanFinish

Next ==
  \/ ScanBegin(MaxScans)
  \/ ScanStep
  \/ Cancel

Spec == Init /\ [][Next]_vars

\* The scanner that nobody cancels, called again and again, with a consumer
\* that may receive from the progress channel or never do so.
ProgressFileSystems ==
  { f \in FileSystemsOfSize(1) :
      /\ ~f.rootReadErr
      /\ f.node[1].name \in {MdName(1), DirName(1)}
      /\ ~f.node[1].infoErr }

InitProgress ==
  InitOver(ProgressFileSystems, { c \in Configs : c.MaxDepth \in {0, 1} })

NextProgress ==
  \/ ScanBegin(MaxProgressScans)
  \/ ScanEstimate
  \/ EnterTooDeep
  \/ EnterReadError
  \/ EnterListed
  \/ ProcessEntry
  \/ LoopDone
  \/ ScanFinish
  \/ Receive

\* The goroutine that runs Scan() is scheduled as long as it can take a step;
\* nothing makes the consumer receive, or the caller call Scan() again.
SpecProgress == InitProgress /\ [][NextProgress]_vars /\ WF_vars(ScanStep)

\* ------------------------------------------------------------ claims
Returned == pc = "idle" /\ ret.returned
Succeeded == Returned /\ ret.err = ""
IsFile(i) == ~fs.node[i].isDir
IsDirectory(i) == i = 0 \/ fs.node[i].isDir
Directories == { i \in 0..fs.n : IsDirectory(i) }

RECURSIVE Depth(_)
Depth(i) == IF i = 0 THEN 0 ELSE 1 + Depth(fs.parent[i])

\* The directories strictly between the root and entry i
RECURSIVE Ancestors(_)
Ancestors(i) == IF i = 0 \/ fs.parent[i] = 0 THEN {}
                ELSE {fs.parent[i]} \cup Ancestors(fs.parent[i])

FilePaths(res) == { res.Files[k].Path : k \in 1..Len(res.Files) }
VisitedFiles == { i \in visited : IsFile(i) }
FilterExcludes(i) == shouldExcludePath(config, PathOf(i), fs.node[i].isDir)

\* C1: after a successful Scan(), TotalFiles is the length of Files, the
\* Extensions counts sum to TotalFiles, and TotalFiles + ExcludedFiles is the
\* number of non-directory entries the walk visited.
C1_ScanTotals ==
  Succeeded =>
    /\ ret.result.TotalFiles = Len(ret.result.Files)
    /\ SumOver(DOMAIN ret.result.Extensions, ret.result.Extensions)
         = ret.result.TotalFiles
    /\ ret.result.TotalFiles + ret.result.ExcludedFiles = Cardinality(VisitedFiles)

C1_Witness ==
  /\ Succeeded
  /\ ret.result.TotalFiles >= 1
  /\ ret.result.ExcludedFiles >= 1

\* C2: a directory the path filter excludes is never recursed into: no entry
\* beneath it is visited, listed in Files or counted.
C2_ExcludedDirPruned ==
  /\ \A v \in visited : \A a \in Ancestors(v) : ~FilterExcludes(a)
  /\ \A d \in listed : d = 0 \/ ~FilterExcludes(d)
  /\ FilePaths(result) \subseteq { PathOf(v) : v \in visited }
  /\ result.TotalFiles + result.ExcludedFiles = Cardinality(VisitedFiles)

C2_Witness ==
  /\ Succeeded
  /\ \E d \in visited : /\ fs.node[d].isDir
                        /\ FilterExcludes(d)
                        /\ \E c \in Children(d) : IsFile(c) /\ c \notin visited

\* C3: a Cancel() made while Scan() runs with an entry still unprocessed makes
\* that Scan() return the cancellation failure.
C3_CancelMidScanFails ==
  (Returned /\ cancelMid) => ret.err = "scan cancelled"

\* C4: a Scan() that fails, by cancellation or by a directory that cannot be
\* listed, returns no ScanResult.
C4_FailureReturnsNil ==
  (Returned /\ ret.err # "") => ret.result = Nil

C4_Witness ==
  /\ Returned
  /\ ret.err = "failed to read directory"
  /\ result.TotalFiles > 0

\* C5: a Scan() fails as cancelled only because of a Cancel() made while that
\* Scan() was running; earlier calls on the scanner do not change its outcome.
C5_NoStaleCancel ==
  (Returned /\ ret.err = "scan cancelled") => cancelInScan

\* The progress channel within its capacity, and no dropped event on it or delivered
C6_ChannelBounded ==
  /\ Len(progress) <= ProgressCap
  /\ \A k \in 1..Len(progress) : progress[k].n \notin dropped
  /\ dropped \cap delivered = {}

\* C6: Scan() never waits on the progress channel: every Scan() that has
\* started returns, whether or not a consumer receives; the channel never
\* holds more than its capacity, and a dropped event is neither on the channel
\* nor delivered later.
C6_ProgressNeverBlocks ==
  /\ []C6_ChannelBounded
  /\ [](pc # "idle" => <>(pc = "idle"))

C6_Witness ==
  /\ Succeeded
  /\ delivered = {}
  /\ Len(progress) = ProgressCap
  /\ Cardinality(dropped) >= 3

\* The visited files whose metadata was read and that no filter rule excludes
UnfilteredFiles ==
  { i \in VisitedFiles : ~fs.node[i].infoErr /\ ~FilterExcludes(i) }

BothRules ==
  { i \in VisitedFiles : /\ ~fs.node[i].infoErr
                         /\ FilterExcludes(i)
                         /\ fs.node[i].size > config.MaxFileSize }

\* C8: a file that matches an exclusion rule and is larger than MaxFileSize is
\* counted once in ExcludedFiles and carries the pattern reason only.
C8_ExcludedOnce ==
  /\ \A i \in BothRules : /\ records[i].IsExcluded
                          /\ records[i].ExcludeReason = PatternReason
  /\ result.ExcludedFiles =
       Cardinality({ i \in VisitedFiles : records[i].IsExcluded })

C8_Witness ==
  /\ Succeeded
  /\ BothRules # {}
  /\ ret.result.ExcludedFiles = 1

\* The visited entries whose Info() failed
InfoFailed == { i \in visited : fs.node[i].infoErr }

\* C9: an entry whose metadata cannot be read is recorded as excluded with the
\* diagnostic reason (a file counted in ExcludedFiles, a directory not listed);
\* the scan does not fail for it, and the entries of every listed directory
\* are all processed.
C9_InfoErrorSkipped ==
  /\ \A i \in InfoFailed :
        /\ records[i].IsExcluded
        /\ records[i].ExcludeReason = InfoReason
        /\ PathOf(i) \notin FilePaths(result)
        /\ i \notin listed
        /\ \A c \in Children(i) : c \notin visited
  /\ result.ExcludedFiles >= Cardinality({ i \in InfoFailed : IsFile(i) })
  /\ (Returned /\ ret.err = "failed to read directory") =>
        \E d \in listed \cup { i \in visited : ~records[i].IsExcluded } \cup {0} :
           IsDirectory(d) /\ ReadDirFails(d)
  /\ Succeeded =>
        /\ \A d \in listed : Children(d) \subseteq visited
        /\ \A i \in VisitedFiles :
              (~fs.node[i].infoErr /\ ~FilterExcludes(i)
                 /\ fs.node[i].size <= config.MaxFileSize)
              => PathOf(i) \in FilePaths(ret.result)

C9_Witness ==
  /\ Succeeded
  /\ \E i \in InfoFailed : /\ IsFile(i)
                           /\ \E s \in Children(fs.parent[i]) :
                                 /\ StrLess(fs.node[i].name, fs.node[s].name)
                                 /\ PathOf(s) \in FilePaths(ret.result)

\* Whether scanFile marks entry i excluded
ExcludedEntry(i) == scanFile(i).IsExcluded

\* C10 as stated: after a successful scan a directory at depth d has been
\* listed exactly when d <= MaxDepth and none of its ancestors was excluded.
C10_ListedIffDepthAndAncestors ==
  Succeeded =>
    \A d \in Directories :
       d \in listed <=> /\ Depth(d) <= config.MaxDepth
                        /\ \A a \in Ancestors(d) : ~ExcludedEntry(a)

\* C10 amended: after a successful scan a directory at depth d has been listed
\* exactly when d <= MaxDepth and neither it nor any of its ancestors was
\* excluded; no entry of a directory deeper than MaxDepth is ever visited.
C10_ListedIffDepthAndNotExcluded ==
  /\ Succeeded =>
       \A d \in Directories :
          d \in listed <=> /\ Depth(d) <= config.MaxDepth
                           /\ \A a \in Ancestors(d) \cup ({d} \ {0}) : ~ExcludedEntry(a)
  /\ \A v \in visited : Depth(fs.parent[v]) <= config.MaxDepth
  /\ \A d \in listed : Depth(d) <= config.MaxDepth

C10_Witness ==
  /\ Succeeded
  /\ \E d \in listed : Depth(d) = config.MaxDepth /\ Children(d) # {}
  /\ \E d \in visited : /\ fs.node[d].isDir
                        /\ ~ExcludedEntry(d)
                        /\ Depth(d) = config.MaxDepth + 1
                        /\ d \notin listed
                        /\ Children(d) # {}

\* ================================================================
\* The path filter applied on its own
\* ================================================================
\* The scanner's own variables while a function is applied on its own: a new
\* scanner over an empty tree
EmptyTree == [n |-> 0, parent |-> <<>>, node |-> <<>>, rootReadErr |-> FALSE]
ScannerAtRest == NewScanner({EmptyTree}, { c \in Configs : c.MaxDepth = 0 })
scannerVars == <<fs, config, cancel, progress, pc, stack, result, fileInfo,
                 estimated, ret, scans, produced, dropped, delivered, visited,
                 listed, records, cancelMid, cancelInScan>>

\* Paths given to shouldExcludePath, relative to the root as in
\* TestScannerExcludePatterns
FilterPaths ==
  { <<"b", "u", "i", "l", "d", "/", "x", ".", "g", "o">>, <<"r", "e", "b", "u", "i", "l", "d", "/", "x", ".", "g", "o">>, <<"s", "r", "c", "/", "b", "u", "i", "l", "d", "e", "r", ".", "g", "o">>, <<"s", "r", "c", "/", "b", "u", "i", "l", "d", "/", "x", ".", "g", "o">>,
    <<"s", "r", "c", "/", "m", "a", "i", "n", ".", "g", "o">>, <<"b", "u", "i", "l", "d">>, <<"a", ".", "e", "x", "e">>, <<"a", ".", "E", "X", "E">>, <<"s", "r", "c", "/", "b", ".", "E", "x", "e">>, <<"e", "x", "e">>,
    <<".", "e", "n", "v">>, <<"s", "r", "c", "/", ".", "e", "n", "v">>, <<".", "g", "i", "t", "/", "c", "o", "n", "f", "i", "g">>, <<"x", ".", "l", "o", "g">>, <<".", "x", ".", "e", "x", "e">> }

\* Configurations of the three rules: DefaultScanConfig's lists cut short,
\* and lists a caller may set
FilterConfigs ==
  { [RootPath |-> <<"r">>,
     ExcludePatterns |-> p,
     ExcludeExtensions |-> e,
     MaxDepth |-> 0,
     MaxFileSize |-> 2,
     IncludeHidden |-> h,
     FollowSymlinks |-> FALSE] :
      p \in { <<>>, << <<"b", "u", "i", "l", "d", "/", "*", "*">> >>, << <<".", "g", "i", "t", "/", "*", "*">>, <<"*", ".", "l", "o", "g">> >> },
      e \in { <<>>, << <<".", "e", "x", "e">> >>, << <<".", "E", "X", "E">> >> },
      h \in BOOLEAN }

FilterCalls ==
  { [fn |-> "shouldExcludePath", cfg |-> c, path |-> p, isDir |-> d,
     returned |-> FALSE, out |-> FALSE] :
      c \in FilterConfigs, p \in FilterPaths, d \in BOOLEAN }

InitFilter == ScannerAtRest /\ ft = Nil /\ appModel = Nil /\ NoComponents /\ call \in FilterCalls

\* ps.shouldExcludePath(path, isDir) runs and returns
CallShouldExcludePath ==
  /\ call.fn = "shouldExcludePath"
  /\ ~call.returned
  /\ call' = [call EXCEPT !.returned = TRUE,
                          !.out = shouldExcludePath(call.cfg, call.path, call.isDir)]
  /\ UNCHANGED <<scannerVars, ft, appModel, components>>

NextFilter == CallShouldExcludePath

SpecFilter == InitFilter /\ [][NextFilter]_vars

\* The components of a path: its maximal runs of characters other than "/"
Components(path) ==
  { SubSeq(path, r[1], r[2]) :
      r \in { q \in (1..Len(path)) \X (1..Len(path)) :
                /\ q[1] <= q[2]
                /\ \A x \in q[1]..q[2] : path[x] # "/"
                /\ (q[1] = 1 \/ path[q[1] - 1] = "/")
                /\ (q[2] = Len(path) \/ path[q[2] + 1] = "/") } }

FilterReturned == call.fn = "shouldExcludePath" /\ call.returned

\* C11: with the hidden rule and the extension rule out of play and one
\* pattern <prefix>/** configured, shouldExcludePath excludes a path if and
\* only if one of the path's components equals <prefix>.
C11_DirPatternMatchesComponents ==
  ( /\ FilterReturned
    /\ call.cfg.IncludeHidden
    /\ call.cfg.ExcludeExtensions = <<>>
    /\ Len(call.cfg.ExcludePatterns) = 1
    /\ HasSuffix(call.cfg.ExcludePatterns[1], <<"/", "*", "*">>) )
  => ( call.out <=>
         TrimSuffix(call.cfg.ExcludePatterns[1], <<"/", "*", "*">>) \in Components(call.path) )

\* C12: with the hidden rule and the patterns out of play, shouldExcludePath
\* excludes exactly the files whose extension equals an entry of
\* ExcludeExtensions when both are lower-cased, and no directory.
C12_ExtensionRuleCaseInsensitive ==
  ( /\ FilterReturned
    /\ call.cfg.IncludeHidden
    /\ call.cfg.ExcludePatterns = <<>> )
  => ( call.out <=>
         ( /\ ~call.isDir
           /\ \E i \in 1..Len(call.cfg.ExcludeExtensions) :
                 ToLower(Ext(call.path)) = ToLower(call.cfg.ExcludeExtensions[i]) ) )

\* ================================================================
\* The scanner over trees with hidden entries
\* ================================================================
\* What entry i may be: a hidden file no other rule matches (small, or above
\* the size limit), a hidden file the extension rule or a pattern matches, a
\* hidden file whose Info() fails, a hidden directory, a plain file, a
\* directory that cannot be listed.
HiddenKinds(i) ==
  { Entry(<<".", "e">> \o DigitOf(i), FALSE, s, FALSE, FALSE) : s \in {1, 3} }
  \cup { Entry(<<".", "x">> \o DigitOf(i) \o <<".", "e", "x", "e">>, FALSE, 1, FALSE, FALSE),
         Entry(<<".">> \o LogName(i), FALSE, 1, FALSE, FALSE),
         Entry(<<".", "e">> \o DigitOf(i), FALSE, 0, TRUE, FALSE),
         Entry(<<".", "g", "i", "t">>, TRUE, 3, FALSE, FALSE),
         Entry(GoName(i), FALSE, 2, FALSE, FALSE),
         Entry(DirName(i), TRUE, 3, FALSE, TRUE) }

RECURSIVE HiddenTreesOfSize(_)
HiddenTreesOfSize(n) ==
  IF n = 0 THEN { [n |-> 0, parent |-> <<>>, node |-> <<>>] }
  ELSE { [n |-> n, parent |-> Append(t.parent, p), node |-> Append(t.node, k)] :
           t \in HiddenTreesOfSize(n - 1), p \in 0..(n - 1), k \in HiddenKinds(n) }

HiddenFileSystems ==
  UNION { { [n |-> t.n, parent |-> t.parent, node |-> t.node, rootReadErr |-> r] :
              t \in { u \in HiddenTreesOfSize(n) : WellFormed(u) }, r \in BOOLEAN } :
          n \in 0..HiddenNodes }

\* DefaultScanConfig's shape, IncludeHidden as the caller sets it
HiddenConfigs ==
  { [c EXCEPT !.IncludeHidden = h] :
      c \in { x \in Configs : x.MaxDepth \in (0 - 1)..1 }, h \in BOOLEAN }

InitHidden == InitOver(HiddenFileSystems, HiddenConfigs)

SpecHidden == InitHidden /\ [][Next]_vars

\* The visited entries whose base name starts with "."
HiddenVisited == { i \in visited : HasPrefix(Base(PathOf(i)), <<".">>) }
\* The visited hidden files that match no extension rule and no pattern
HiddenUnmatched ==
  { i \in HiddenVisited :
      /\ IsFile(i)
      /\ \A k \in 1..Len(config.ExcludeExtensions) :
            ToLower(Ext(PathOf(i))) # config.ExcludeExtensions[k]
      /\ \A k \in 1..Len(config.ExcludePatterns) :
            ~PatternExcludes(config.ExcludePatterns[k], PathOf(i)) }

\* C13 as stated: with IncludeHidden = false every entry with a hidden base
\* name is excluded; with IncludeHidden = true every hidden file that matches
\* no extension rule and no pattern is in Files and counted in TotalFiles.
C13_HiddenRule ==
  /\ ~config.IncludeHidden =>
       \A i \in HiddenVisited :
          /\ shouldExcludePath(config, PathOf(i), fs.node[i].isDir)
          /\ records[i].IsExcluded
          /\ PathOf(i) \notin FilePaths(result)
  /\ config.IncludeHidden =>
       /\ \A i \in HiddenUnmatched :
             ~records[i].IsExcluded /\ PathOf(i) \in FilePaths(result)
       /\ result.TotalFiles >= Cardinality(HiddenUnmatched)

\* C13 amended: with IncludeHidden = false every entry with a hidden base
\* name is excluded whatever the other rules say; with IncludeHidden = true a
\* hidden file that matches no extension rule and no pattern, whose metadata
\* is read and whose size is at most MaxFileSize is in Files and counted in
\* TotalFiles.
C13_HiddenRuleWithinSize ==
  /\ ~config.IncludeHidden =>
       \A i \in HiddenVisited :
          /\ shouldExcludePath(config, PathOf(i), fs.node[i].isDir)
          /\ records[i].IsExcluded
          /\ PathOf(i) \notin FilePaths(result)
          /\ i \notin listed
  /\ config.IncludeHidden =>
       LET fit == { i \in HiddenUnmatched : /\ ~fs.node[i].infoErr
                                            /\ fs.node[i].size <= config.MaxFileSize }
       IN  /\ \A i \in fit :
                ~records[i].IsExcluded /\ PathOf(i) \in FilePaths(result)
           /\ result.TotalFiles >= Cardinality(fit)
           /\ \A i \in HiddenUnmatched \ fit : records[i].IsExcluded

C13_Witness ==
  /\ Succeeded
  /\ config.IncludeHidden
  /\ ret.result.TotalFiles = 1
  /\ ret.result.ExcludedFiles = 1
  /\ \E i, j \in HiddenUnmatched :
        /\ fs.node[i].size <= config.MaxFileSize /\ ~fs.node[i].infoErr
        /\ fs.node[j].size > config.MaxFileSize

\* ================================================================
\* FolderTree.GetFolderStats (package folder)
\* ================================================================
\* The name WalkDir's callback sees for entry i (the root: the base name of
\* the walked path)
WalkName(i) == IF i = 0 THEN Base(config.RootPath) ELSE fs.node[i].name

\* The entries GetFolderStats's callback counts when filepath.WalkDir walks
\* entry i: a hidden entry is skipped (a directory with all below it) unless
\* showHidden; an entry whose Info() fails is not counted, and a directory
\* that cannot be read has its error ignored.
RECURSIVE WalkCounted(_, _)
WalkCounted(i, showHidden) ==
  IF ~showHidden /\ HasPrefix(WalkName(i), <<".">>) THEN {}
  ELSE (IF i # 0 /\ fs.node[i].infoErr THEN {} ELSE {i})
       \cup (IF IsDirectory(i) /\ ~ReadDirFails(i)
             THEN UNION { WalkCounted(c, showHidden) : c \in Children(i) }
             ELSE {})

\* FolderTree.GetFolderStats(folderPath): the statistics, and the entries
\* behind the counts
GetFolderStats(folder, showHidden) ==
  LET counted == WalkCounted(folder, showHidden)
      files   == { i \in counted : ~IsDirectory(i) }
  IN  [TotalFiles |-> Cardinality(files),
       TotalDirectories |-> Cardinality(counted \ files),
       TotalSize |-> SumOver(files, [i \in files |-> fs.node[i].size]),
       counted |-> files]

StatsCalls ==
  { [fn |-> "GetFolderStats", folder |-> d, showHidden |-> h,
     returned |-> FALSE, out |-> Nil] : d \in 0..NumNodes, h \in BOOLEAN }

InitStats ==
  /\ NewScanner(FileSystems \cup HiddenFileSystems,
                { c \in HiddenConfigs : c.MaxDepth = 1 })
  /\ call \in StatsCalls
  /\ call.folder \in Directories
  /\ ft = Nil
  /\ appModel = Nil
  /\ NoComponents

\* ft.GetFolderStats(folderPath) runs and returns
CallGetFolderStats ==
  /\ call.fn = "GetFolderStats"
  /\ ~call.returned
  /\ call' = [call EXCEPT !.returned = TRUE,
                          !.out = GetFolderStats(call.folder, call.showHidden)]
  /\ UNCHANGED <<scannerVars, ft, appModel, components>>

NextStats == CallGetFolderStats

SpecStats == InitStats /\ [][NextStats]_vars

\* The entries below directory d
RECURSIVE Below(_)
Below(d) == Children(d) \cup UNION { Below(c) : c \in Children(d) }

\* The directories between the folder and entry i, the folder left out
RECURSIVE Between(_, _)
Between(folder, i) ==
  IF i = 0 \/ fs.parent[i] = folder \/ fs.parent[i] = 0 THEN {}
  ELSE {fs.parent[i]} \cup Between(folder, fs.parent[i])

\* C14: GetFolderStats counts exactly the files below the folder that the
\* scanner's filter (hidden rule, extension denylist, patterns) does not
\* exclude, the two set alike for hidden entries, in a tree whose entries
\* can all be read.
C14_StatsUseScannerFilter ==
  ( /\ call.fn = "GetFolderStats"
    /\ call.returned
    /\ call.showHidden = config.IncludeHidden
    /\ ~fs.rootReadErr
    /\ \A i \in 1..fs.n : ~fs.node[i].infoErr /\ ~fs.node[i].readErr )
  => call.out.counted =
       { i \in Below(call.folder) :
           /\ IsFile(i)
           /\ ~FilterExcludes(i)
           /\ \A a \in Between(call.folder, i) : ~FilterExcludes(a) }

\* ================================================================
\* The two caps of the scanner: estimated files and counted lines
\* ================================================================
\* Numbers of items met: few, and around the cap
AroundCap(cap) == (0..CapMargin) \cup ((cap - CapMargin)..(cap + CapMargin))

CapCalls ==
  { [fn |-> "estimateFileCount", n |-> n, returned |-> FALSE, out |-> 0] :
      n \in AroundCap(EstimateCap) }
  \cup { [fn |-> "countLines", n |-> n, returned |-> FALSE, out |-> 0] :
           n \in AroundCap(LineCap) }

InitCaps == ScannerAtRest /\ ft = Nil /\ appModel = Nil /\ NoComponents /\ call \in CapCalls

\* ps.estimateFileCount() runs over a tree with call.n files to count
CallEstimateFileCount ==
  /\ call.fn = "estimateFileCount"
  /\ ~call.returned
  /\ call' = [call EXCEPT !.returned = TRUE, !.out = EstimateWalk(call.n)]
  /\ UNCHANGED <<scannerVars, ft, appModel, components>>

\* ps.countLines(path) runs on a file of call.n lines
CallCountLines ==
  /\ call.fn = "countLines"
  /\ ~call.returned
  /\ call' = [call EXCEPT !.returned = TRUE, !.out = countLines(call.n)]
  /\ UNCHANGED <<scannerVars, ft, appModel, components>>

NextCaps == CallEstimateFileCount \/ CallCountLines

SpecCaps == InitCaps /\ [][NextCaps]_vars

\* C15: the value estimateFileCount returns is the number of files to count
\* capped at 10,000, so at most 10,000.
C15_EstimateAtMostCap ==
  (call.fn = "estimateFileCount" /\ call.returned)
  => (call.out = Min2(call.n, EstimateCap) /\ call.out <= EstimateCap)

\* C16: the value countLines returns, which scanFile stores in Lines, never
\* exceeds 100,000.
C16_LinesAtMostCap ==
  (call.fn = "countLines" /\ call.returned) => call.out <= LineCap

\* ================================================================
\* ContextGenerator: the files selected for the content sections
\* ================================================================
\* 1024, the unit of the generator's sizes (50 * 1024, 10*1024, 100*1024)
KB == 1024

\* NewContextGenerator: priorityExtensions, in order
priorityExtensions ==
  << <<".", "g", "o">>, <<".", "j", "s">>, <<".", "t", "s">>, <<".", "p", "y">>, <<".", "j", "a", "v", "a">>, <<".", "c">>, <<".", "c", "p", "p">>,
     <<".", "m", "d">>, <<".", "t", "x", "t">>, <<".", "j", "s", "o", "n">>, <<".", "y", "a", "m", "l">>, <<".", "y", "m", "l">> >>

\* ContextGenerator.isTextFile: its own list of extensions
cgTextExtensions ==
  { <<".", "t", "x", "t">>, <<".", "m", "d">>, <<".", "g", "o">>, <<".", "j", "s">>, <<".", "t", "s">>, <<".", "p", "y">>, <<".", "j", "a", "v", "a">>, <<".", "c">>, <<".", "c", "p", "p">>,
    <<".", "h">>, <<".", "h", "p", "p">>, <<".", "c", "s">>, <<".", "r", "b">>, <<".", "p", "h", "p">>, <<".", "h", "t", "m", "l">>, <<".", "c", "s", "s">>, <<".", "s", "c", "s", "s">>,
    <<".", "j", "s", "o", "n">>, <<".", "x", "m", "l">>, <<".", "y", "a", "m", "l">>, <<".", "y", "m", "l">>, <<".", "t", "o", "m", "l">>, <<".", "i", "n", "i">>, <<".", "c", "f", "g">>,
    <<".", "s", "h">>, <<".", "b", "a", "t">>, <<".", "p", "s", "1">>, <<".", "s", "q", "l">>, <<".", "r">>, <<".", "s", "c", "a", "l", "a">>, <<".", "k", "t">>, <<".", "r", "s">> }
cgIsTextFile(ext) == ext \in cgTextExtensions

\* calculateFileScore: importantNames
importantNames ==
  << <<"r", "e", "a", "d", "m", "e">>, <<"m", "a", "i", "n">>, <<"i", "n", "d", "e", "x">>, <<"a", "p", "p">>, <<"c", "o", "n", "f", "i", "g">>, <<"p", "a", "c", "k", "a", "g", "e">>,
     <<"m", "a", "k", "e", "f", "i", "l", "e">>, <<"d", "o", "c", "k", "e", "r", "f", "i", "l", "e">>, <<"d", "o", "c", "k", "e", "r", "-", "c", "o", "m", "p", "o", "s", "e">> >>

\* ContextGenerator.calculateFileScore
calculateFileScore(file) ==
  LET text     == IF cgIsTextFile(file.Extension) THEN 10 ELSE 0
      i        == IndexIn(file.Extension, priorityExtensions)
      priority == IF i > 0 THEN 50 - (i - 1) ELSE 0
      size     == IF file.Size < KB THEN 5
                  ELSE IF file.Size < 10 * KB THEN 3
                  ELSE IF file.Size > 100 * KB THEN 0 - 5
                  ELSE 0
      baseName == ToLower(Base(file.Path))
      name     == IF \E k \in 1..Len(importantNames) :
                       Contains(baseName, importantNames[k])
                  THEN 20 ELSE 0
  IN  text + priority + size + name

\* selectFilesForContent's first loop keeps a file if its score is positive
Scored(file) == calculateFileScore(file) > 0

\* scoredFiles: the files kept, in the order of the input list
scoredFiles(files) == SelectSeq(files, Scored)

\* sort.Slice(scoredFiles, score[i] > score[j]): the sort is not stable, so
\* the result is any arrangement of the slice with scores in non-increasing
\* order (files of equal score in any order)
SortedByScore(scored) ==
  LET n     == Len(scored)
      perms == { f \in [1..n -> 1..n] : \A a, b \in 1..n : a # b => f[a] # f[b] }
  IN  { [k \in 1..n |-> scored[f[k]]] :
          f \in { g \in perms :
                    \A a, b \in 1..n :
                       a < b => calculateFileScore(scored[g[a]])
                                  >= calculateFileScore(scored[g[b]]) } }

\* Mutant: the budget is tested before the file's size is added
OverBudgetBefore(totalSize, size, maxTotalSize) == totalSize > maxTotalSize
\* selectFilesForContent: totalSize+sf.file.Size > cg.maxTotalSize
OverBudget(totalSize, size, maxTotalSize) == totalSize + size > maxTotalSize

\* Mutant: a candidate over the budget is skipped and the loop goes on
RECURSIVE SelectLoopSkips(_, _, _, _, _, _)
SelectLoopSkips(order, k, totalSize, selected, maxFileSize, maxTotalSize) ==
  IF k > Len(order) THEN selected
  ELSE IF OverBudget(totalSize, order[k].Size, maxTotalSize)
       THEN SelectLoopSkips(order, k + 1, totalSize, selected,
                            maxFileSize, maxTotalSize)
  ELSE IF order[k].Size > maxFileSize
       THEN SelectLoopSkips(order, k + 1, totalSize, selected,
                            maxFileSize, maxTotalSize)
  ELSE SelectLoopSkips(order, k + 1, totalSize + order[k].Size,
                       Append(selected, order[k]), maxFileSize, maxTotalSize)

\* selectFilesForContent's second loop from candidate k on: break at the
\* first candidate over the budget, continue past a file over maxFileSize
RECURSIVE SelectLoop(_, _, _, _, _, _)
SelectLoop(order, k, totalSize, selected, maxFileSize, maxTotalSize) ==
  IF k > Len(order) THEN selected
  ELSE IF OverBudget(totalSize, order[k].Size, maxTotalSize) THEN selected
  ELSE IF order[k].Size > maxFileSize
       THEN SelectLoop(order, k + 1, totalSize, selected, maxFileSize, maxTotalSize)
  ELSE SelectLoop(order, k + 1, totalSize + order[k].Size,
                  Append(selected, order[k]), maxFileSize, maxTotalSize)

\* ContextGenerator.selectFilesForContent, given the sorted candidates
selectFilesForContent(order, maxFileSize, maxTotalSize) ==
  SelectLoop(order, 1, 0, <<>>, maxFileSize, maxTotalSize)

\* getLanguageFromExtension, for the extensions of the model's files
getLanguageFromExtension(ext) ==
  IF ext = <<".", "g", "o">> THEN <<"g", "o">>
  ELSE IF ext = <<".", "m", "d">> THEN <<"m", "a", "r", "k", "d", "o", "w", "n">>
  ELSE <<>>

\* strings.TrimPrefix(extension, ".")
TrimDot(ext) == IF HasPrefix(ext, <<".">>) THEN SubSeq(ext, 2, Len(ext)) ELSE ext

\* strings.ToUpper
ToUpper(s) ==
  [i \in 1..Len(s) |->
     IF IndexIn(s[i], Lower) > 0 THEN Upper[IndexIn(s[i], Lower)] ELSE s[i]]

\* What a strings.Builder holds: pieces of text, and the contents of files,
\* each known by the file's path and by its length in bytes
Text(s) == [text |-> s]
Body(file) == [body |-> file.Path, len |-> file.Size]
PieceLen(p) == IF "text" \in DOMAIN p THEN Len(p.text) ELSE p.len
\* content.Len(), len(section.Content)
RECURSIVE ContentLen(_)
ContentLen(content) ==
  IF content = <<>> THEN 0
  ELSE PieceLen(content[1]) + ContentLen(Tail(content))

\* os.Getwd() in getRelativePath
Wd == <<"/", "w">>
\* ContextGenerator.getRelativePath: filepath.Rel(wd, fullPath) for a path
\* below the working directory; Rel fails for a relative path, and the base
\* name is returned
getRelativePath(fullPath) ==
  IF fullPath = Wd THEN <<".">>
  ELSE IF HasPrefix(fullPath, Wd \o <<"/">>)
  THEN SubSeq(fullPath, Len(Wd) + 2, Len(fullPath))
  ELSE Base(fullPath)

\* The error of os.Open in readFileContent, as %v prints it
OpenError(path) == <<"o", "p", "e", "n", " ">> \o path \o <<":", " ", "p", "e", "r", "m", "i", "s", "s", "i", "o", "n", " ", "d", "e", "n", "i", "e", "d">>

\* generateFileContentSection: sectionTitle
sectionTitle(extension) ==
  IF extension = <<"o", "t", "h", "e", "r">> THEN <<"O", "t", "h", "e", "r", " ", "F", "i", "l", "e", "s", " ", "C", "o", "n", "t", "e", "n", "t">>
  ELSE ToUpper(TrimDot(extension)) \o <<" ", "F", "i", "l", "e", "s", " ", "C", "o", "n", "t", "e", "n", "t">>

\* "## <relativePath>\n\n"
FileHeading(file) == Text(<<"#", "#", " ">> \o getRelativePath(file.Path) \o <<"\n", "\n">>)
\* "*Error reading file: <err>*\n\n"
ErrorMarker(file) ==
  Text(<<"*", "E", "r", "r", "o", "r", " ", "r", "e", "a", "d", "i", "n", "g", " ", "f", "i", "l", "e", ":", " ">> \o OpenError(file.Path) \o <<"*", "\n", "\n">>)
\* The fenced block: three backquotes and the language, the file's content as
\* long as the file was when scanned, three backquotes ("~" stands for a
\* backquote)
FileBlock(file) ==
  << Text(<<"~", "~", "~">> \o getLanguageFromExtension(file.Extension) \o <<"\n">>),
     Body(file),
     Text(<<"\n", "~", "~", "~", "\n", "\n">>) >>
TruncationMarker == Text(<<"*", "C", "o", "n", "t", "e", "x", "t", " ", "t", "r", "u", "n", "c", "a", "t", "e", "d", " ", "d", "u", "e", " ", "t", "o", " ", "s", "i", "z", "e", " ", "l", "i", "m", "i", "t", "s", "*", "\n", "\n">>)

\* Mutant: a file that cannot be read ends the section
RECURSIVE RenderLoopStopsOnError(_, _, _, _, _, _, _)
RenderLoopStopsOnError(files, k, content, included, unreadable, maxFileSize, maxTotalSize) ==
  IF k > Len(files)
  THEN [Content |-> content,
        Files |-> [i \in 1..Len(included) |-> getRelativePath(included[i].Path)],
        rendered |-> included]
  ELSE IF files[k].Size > maxFileSize
       THEN RenderLoopStopsOnError(files, k + 1, content, included, unreadable,
                                   maxFileSize, maxTotalSize)
  ELSE IF files[k].Path \in unreadable
       THEN [Content |-> content \o << FileHeading(files[k]), ErrorMarker(files[k]) >>,
             Files |-> [i \in 1..Len(included) |-> getRelativePath(included[i].Path)],
             rendered |-> included]
  ELSE LET written == content \o << FileHeading(files[k]) >> \o FileBlock(files[k])
           inc     == Append(included, files[k])
       IN  IF ContentLen(written) > maxTotalSize
           THEN [Content |-> Append(written, TruncationMarker),
                 Files |-> [i \in 1..Len(inc) |-> getRelativePath(inc[i].Path)],
                 rendered |-> inc]
           ELSE RenderLoopStopsOnError(files, k + 1, written, inc, unreadable,
                                       maxFileSize, maxTotalSize)

\* generateFileContentSection's loop from file k on. unreadable: the paths
\* readFileContent fails on. Files: includedFiles; rendered: the FileInfo of
\* the files in includedFiles.
RECURSIVE RenderLoop(_, _, _, _, _, _, _)
RenderLoop(files, k, content, included, unreadable, maxFileSize, maxTotalSize) ==
  IF k > Len(files)
  THEN [Content |-> content,
        Files |-> [i \in 1..Len(included) |-> getRelativePath(included[i].Path)],
        rendered |-> included]
  ELSE IF files[k].Size > maxFileSize
       THEN RenderLoop(files, k + 1, content, included, unreadable,
                       maxFileSize, maxTotalSize)
  ELSE IF files[k].Path \in unreadable
       THEN RenderLoop(files, k + 1,
                       content \o << FileHeading(files[k]), ErrorMarker(files[k]) >>,
                       included, unreadable, maxFileSize, maxTotalSize)
  ELSE LET written == content \o << FileHeading(files[k]) >> \o FileBlock(files[k])
           inc     == Append(included, files[k])
       IN  IF ContentLen(written) > maxTotalSize
           THEN [Content |-> Append(written, TruncationMarker),
                 Files |-> [i \in 1..Len(inc) |-> getRelativePath(inc[i].Path)],
                 rendered |-> inc]
           ELSE RenderLoop(files, k + 1, written, inc, unreadable,
                           maxFileSize, maxTotalSize)

\* ContextGenerator.generateFileContentSection
generateFileContentSection(extension, files, unreadable, maxFileSize, maxTotalSize) ==
  LET r == RenderLoop(files, 1,
                      << Text(<<"#", " ">> \o sectionTitle(extension) \o <<"\n", "\n">>) >>,
                      <<>>, unreadable, maxFileSize, maxTotalSize)
  IN  [Title |-> sectionTitle(extension), Content |-> r.Content,
       Files |-> r.Files, rendered |-> r.rendered]

\* The section key of a file in generateContentSections
SectionOf(file) == IF file.Extension = <<>> THEN <<"o", "t", "h", "e", "r">> ELSE file.Extension

\* filesByType[ext] in generateContentSections
FilesOfType(selected, ext) ==
  LET ofType(f) == SectionOf(f) = ext IN SelectSeq(selected, ofType)

\* generateContentSections after the selection: the files written into the
\* content sections, one section for each extension
Rendered(selected, unreadable, maxFileSize, maxTotalSize) ==
  UNION { Range(generateFileContentSection(e, FilesOfType(selected, e), unreadable,
                                           maxFileSize, maxTotalSize).rendered) :
          e \in { SectionOf(selected[k]) : k \in 1..Len(selected) } }

\* A FileInfo of ScanResult.Files
ScannedFile(path, size) ==
  [Path |-> path, Size |-> size, Extension |-> ToLower(Ext(path))]

\* The files scanned: source files that tie on score, an important name, a
\* small file that is not text, files with score 0 and below, a text file
\* above the per-file limit
FilePool ==
  { ScannedFile(<<"r", "/", "m", "a", "i", "n", ".", "g", "o">>, 6 * KB),
    ScannedFile(<<"r", "/", "u", "t", "i", "l", ".", "g", "o">>, 6 * KB),
    ScannedFile(<<"r", "/", "l", "i", "b", ".", "g", "o">>, 6 * KB),
    ScannedFile(<<"r", "/", "n", "o", "t", "e", "s", ".", "m", "d">>, 512),
    ScannedFile(<<"r", "/", "l", "o", "g", "o", ".", "p", "n", "g">>, 512),
    ScannedFile(<<"r", "/", "d", "a", "t", "a", ".", "b", "i", "n">>, 20 * KB),
    ScannedFile(<<"r", "/", "b", "i", "g", ".", "b", "i", "n">>, 200 * KB),
    ScannedFile(<<"r", "/", "h", "u", "g", "e", ".", "g", "o">>, 200 * KB) }

\* ScanResult.Files: lists of different files
RECURSIVE FileLists(_)
FileLists(n) ==
  IF n = 0 THEN { <<>> }
  ELSE LET shorter == FileLists(n - 1)
       IN  shorter \cup
           { Append(q[1], q[2]) :
               q \in { r \in { x \in shorter : Len(x) = n - 1 } \X FilePool :
                         \A k \in 1..(n - 1) : r[1][k] # r[2] } }

\* SetOptions(maxFileSize, maxTotalSize, ...): the default per-file limit or
\* a small one; a total of 10 KB, 12 KB, or the default 10 MB
ContentCalls ==
  { [fn |-> "generateContentSections", files |-> l,
     maxFileSize |-> mf, maxTotalSize |-> mt, returned |-> FALSE, out |-> Nil] :
      l \in FileLists(MaxFiles),
      mf \in { 50 * KB, 4 * KB },
      mt \in { 10 * KB, 12 * KB, 10 * KB * KB } }

InitContent == ScannerAtRest /\ ft = Nil /\ appModel = Nil /\ NoComponents /\ call \in ContentCalls

\* cg.generateContentSections(scanResult) runs: the candidates are scored and
\* sorted, the files selected, and the sections written
CallGenerateContentSections ==
  /\ call.fn = "generateContentSections"
  /\ ~call.returned
  /\ \E order \in SortedByScore(scoredFiles(call.files)) :
     \E selected \in {selectFilesForContent(order, call.maxFileSize,
                                            call.maxTotalSize)} :
     \E unreadable \in SUBSET { selected[k].Path : k \in 1..Len(selected) } :
        call' = [call EXCEPT
                   !.returned = TRUE,
                   !.out = [order |-> order,
                            selected |-> selected,
                            rendered |-> Rendered(selected, unreadable,
                                                  call.maxFileSize,
                                                  call.maxTotalSize)]]
  /\ UNCHANGED <<scannerVars, ft, appModel, components>>

NextContent == CallGenerateContentSections

SpecContent == InitContent /\ [][NextContent]_vars

ContentReturned == call.fn = "generateContentSections" /\ call.returned
\* The sum of the sizes of a set of files
SizeOf(S) == SumOver(S, [f \in S |-> f.Size])
\* The place of a candidate in the sorted order
Rank(order, f) == CHOOSE k \in 1..Len(order) : order[k] = f
\* The first candidate at which the loop stopped for the budget, and
\* Len(order) + 1 if there is none
StopAt(order, selected, maxTotalSize) ==
  LET over == { k \in 1..Len(order) :
                  /\ order[k] \notin Range(selected)
                  /\ SizeOf({ f \in Range(selected) : Rank(order, f) < k })
                       + order[k].Size > maxTotalSize }
  IN  IF over = {} THEN Len(order) + 1
      ELSE CHOOSE k \in over : \A j \in over : k <= j

\* C17: the files selectFilesForContent returns are files of the input, their
\* sizes sum to at most maxTotalSize and each is at most maxFileSize; the
\* files written into the content sections are among them, within the same
\* two bounds.
C17_SelectionWithinLimits ==
  ContentReturned =>
    /\ Range(call.out.selected) \subseteq Range(call.files)
    /\ Cardinality(Range(call.out.selected)) = Len(call.out.selected)
    /\ SizeOf(Range(call.out.selected)) <= call.maxTotalSize
    /\ \A f \in Range(call.out.selected) : f.Size <= call.maxFileSize
    /\ call.out.rendered \subseteq Range(call.out.selected)
    /\ SizeOf(call.out.rendered) <= call.maxTotalSize
    /\ \A f \in call.out.rendered : f.Size <= call.maxFileSize

C17_Witness ==
  /\ ContentReturned
  /\ Len(call.out.selected) = 2
  /\ SizeOf(Range(call.out.selected)) = call.maxTotalSize
  /\ \E f \in Range(call.files) : Scored(f) /\ f.Size > call.maxFileSize
  /\ \E f \in Range(call.files) : Scored(f) /\ f.Size > call.maxTotalSize
  /\ Cardinality(call.out.rendered) = 1

\* C18: the candidates are the files of positive score in non-increasing
\* score order; the loop stops at the first candidate whose size takes the
\* running total above maxTotalSize, so the files selected are the candidates
\* ranked before it that are at most maxFileSize, and none ranked after it;
\* of two 6 KB candidates under a 10 KB budget at most one is selected, and
\* none of lower score than the other.
C18_GreedyStopsAtBudget ==
  ContentReturned =>
    LET order == call.out.order
        sel   == Range(call.out.selected)
        stop  == StopAt(order, call.out.selected, call.maxTotalSize)
    IN  /\ Range(order) = { f \in Range(call.files) : calculateFileScore(f) > 0 }
        /\ Len(order) = Cardinality(Range(order))
        /\ \A a, b \in 1..Len(order) :
              a < b => calculateFileScore(order[a]) >= calculateFileScore(order[b])
        /\ \A k \in 1..Len(order) :
              order[k] \in sel <=> (k < stop /\ order[k].Size <= call.maxFileSize)
        /\ \A a, b \in 1..Len(call.out.selected) :
              a < b => Rank(order, call.out.selected[a])
                         < Rank(order, call.out.selected[b])
        /\ call.maxTotalSize = 10 * KB =>
              \A f, g \in Range(order) :
                 (f # g /\ f.Size = 6 * KB /\ g.Size = 6 * KB /\ f \in sel)
                 => (g \notin sel /\ calculateFileScore(f) >= calculateFileScore(g))

C18_Witness ==
  /\ ContentReturned
  /\ call.maxTotalSize = 10 * KB
  /\ LET order == call.out.order
         sel   == Range(call.out.selected)
         stop  == StopAt(order, call.out.selected, call.maxTotalSize)
     IN  /\ stop <= Len(order)
         /\ \E k \in (stop + 1)..Len(order) :
               /\ SizeOf(sel) + order[k].Size <= call.maxTotalSize
               /\ order[k].Size <= call.maxFileSize
         /\ \E f, g \in Range(order) :
               /\ f.Size = 6 * KB /\ g.Size = 6 * KB
               /\ calculateFileScore(f) > calculateFileScore(g)
               /\ f \in sel /\ g \notin sel

\* C19: a file whose extension is not a recognised text type has a score of
\* at most 0 and is not selected.
C19_NonTextNeverSelected ==
  ContentReturned =>
    \A f \in Range(call.files) :
       ~cgIsTextFile(f.Extension) =>
          (calculateFileScore(f) <= 0 /\ f \notin Range(call.out.selected))

\* C20: candidates of equal score are considered in their order in
\* ScanResult.Files; if two files tie on score and the later one is selected,
\* the earlier one is selected too unless it is larger than maxFileSize.
C20_TiesInInputOrder ==
  ContentReturned =>
    \A a, b \in 1..Len(call.files) :
       ( /\ a < b
         /\ Scored(call.files[a])
         /\ calculateFileScore(call.files[a]) = calculateFileScore(call.files[b]) )
       => /\ Rank(call.out.order, call.files[a]) < Rank(call.out.order, call.files[b])
          /\ call.files[b] \in Range(call.out.selected)
               => \/ call.files[a] \in Range(call.out.selected)
                  \/ call.files[a].Size > call.maxFileSize

\* ================================================================
\* ContextGenerator.GenerateContext: the sections, the summary, the estimate
\* ================================================================
\* fmt's %d of a number that is not negative
RECURSIVE Decimal(_)
Decimal(n) == IF n < 10 THEN DigitOf(n) ELSE Decimal(n \div 10) \o DigitOf(n % 10)

\* fmt's %.1f of num/div: the nearest tenth, a tie going to the even digit
OneDecimal(num, div) ==
  LET q      == (num * 10) \div div
      r      == (num * 10) % div
      tenths == IF 2 * r > div \/ (2 * r = div /\ q % 2 = 1) THEN q + 1 ELSE q
  IN  Decimal(tenths \div 10) \o <<".">> \o DigitOf(tenths % 10)

\* FormatSize's loop: the divisor and the exponent for n = bytes / unit
RECURSIVE SizeUnit(_, _, _)
SizeUnit(n, div, exp) ==
  IF n >= KB THEN SizeUnit(n \div KB, div * KB, exp + 1)
  ELSE [div |-> div, exp |-> exp]

\* FormatSize
FormatSize(bytes) ==
  IF bytes < KB THEN Decimal(bytes) \o <<" ", "B">>
  ELSE LET u == SizeUnit(bytes \div KB, KB, 0)
       IN  OneDecimal(bytes, u.div) \o <<" ">> \o << <<"K", "M", "G", "T", "P", "E">>[u.exp + 1] >> \o <<"B">>

\* FormatNumber
FormatNumber(n) ==
  IF n < 1000 THEN Decimal(n)
  ELSE IF n < 1000000 THEN OneDecimal(n, 1000) \o <<"K">>
  ELSE OneDecimal(n, 1000000) \o <<"M">>

\* filepath.Dir of a clean path
Dir(path) ==
  IF LastSlash(path) = 0 THEN <<".">>
  ELSE IF LastSlash(path) = 1 THEN <<"/">>
  ELSE SubSeq(path, 1, LastSlash(path) - 1)

\* strings.Count(s, "/")
CountSeparators(s) == Cardinality({ i \in 1..Len(s) : s[i] = "/" })

\* strings.Repeat
RECURSIVE Repeat(_, _)
Repeat(s, n) == IF n = 0 THEN <<>> ELSE s \o Repeat(s, n - 1)

\* The strings of a sequence, one after the other (successive WriteString)
RECURSIVE Flatten(_)
Flatten(strs) == IF strs = <<>> THEN <<>> ELSE strs[1] \o Flatten(Tail(strs))

\* The arrangements of the elements of a set in a sequence
Arrangements(S) ==
  LET n == Cardinality(S)
  IN  { p \in [1..n -> S] : \A a, b \in 1..n : a # b => p[a] # p[b] }

\* What sort.Slice (not stable) can make of a slice built by ranging over a
\* map (in any order): the arrangements in which no element comes before one
\* that is less than it
SortOutcomes(S, less(_, _)) ==
  { p \in Arrangements(S) :
      \A a, b \in 1..Len(p) : a < b => ~less(p[b], p[a]) }

\* sort.Strings of a set of strings
RECURSIVE SortStrings(_)
SortStrings(S) ==
  IF S = {} THEN <<>>
  ELSE LET m == CHOOSE x \in S : \A y \in S \ {x} : StrLess(x, y)
       IN  <<m>> \o SortStrings(S \ {m})

\* ContextGenerator.sortExtensionsByCount
sortExtensionsByCount(extensions) ==
  LET more(a, b) == extensions[a] > extensions[b]
  IN  SortOutcomes(DOMAIN extensions, more)

\* The key of a file in generateFileTypeSection's filesByExt
TypeOf(file) == IF file.Extension = <<>> THEN <<"(", "n", "o", " ", "e", "x", "t", "e", "n", "s", "i", "o", "n", ")">> ELSE file.Extension
\* filesByExt[ext]
FilesByExt(files, ext) ==
  LET ofType(f) == TypeOf(f) = ext IN SelectSeq(files, ofType)

\* ContextGenerator.sortExtensionsByPriority: priority extensions first, in
\* their order; then by number of files
sortExtensionsByPriority(files) ==
  LET keys == { TypeOf(files[k]) : k \in 1..Len(files) }
      prio(e) == IndexIn(e, priorityExtensions)
      before(a, b) ==
        IF prio(a) # 0 /\ prio(b) # 0 THEN prio(a) < prio(b)
        ELSE IF prio(a) # 0 THEN TRUE
        ELSE IF prio(b) # 0 THEN FALSE
        ELSE Len(FilesByExt(files, a)) > Len(FilesByExt(files, b))
  IN  SortOutcomes(keys, before)

\* ContextGenerator.generateOverviewSection, the extensions in the order
\* sortExtensionsByCount returned
generateOverviewSection(sr, sortedExts) ==
  LET extLine(e) ==
        <<"-", " ", "*", "*">> \o (IF e = <<>> THEN <<"(", "n", "o", " ", "e", "x", "t", "e", "n", "s", "i", "o", "n", ")">> ELSE e) \o <<"*", "*", ":", " ">>
          \o Decimal(sr.Extensions[e]) \o <<" ", "f", "i", "l", "e", "s", "\n">>
      fileLine(f) ==
        <<"-", " ", "*", "*">> \o getRelativePath(f.Path) \o <<"*", "*", ":", " ">> \o FormatSize(f.Size)
          \o <<" ", "(">> \o Decimal(f.Lines) \o <<" ", "l", "i", "n", "e", "s", ")", "\n">>
  IN  [Title |-> <<"P", "r", "o", "j", "e", "c", "t", " ", "O", "v", "e", "r", "v", "i", "e", "w">>,
       Content |->
         << Text(
              <<"#", " ", "P", "r", "o", "j", "e", "c", "t", " ", "O", "v", "e", "r", "v", "i", "e", "w", "\n", "\n">>
              \o <<"*", "*", "S", "c", "a", "n", " ", "c", "o", "m", "p", "l", "e", "t", "e", "d", ":", "*", "*", " ">> \o sr.ScanDuration \o <<"\n">>
              \o <<"*", "*", "T", "o", "t", "a", "l", " ", "f", "i", "l", "e", "s", ":", "*", "*", " ">> \o Decimal(sr.TotalFiles) \o <<"\n">>
              \o <<"*", "*", "T", "o", "t", "a", "l", " ", "d", "i", "r", "e", "c", "t", "o", "r", "i", "e", "s", ":", "*", "*", " ">> \o Decimal(sr.TotalDirectories) \o <<"\n">>
              \o <<"*", "*", "T", "o", "t", "a", "l", " ", "s", "i", "z", "e", ":", "*", "*", " ">> \o FormatSize(sr.TotalSize) \o <<"\n">>
              \o <<"*", "*", "T", "o", "t", "a", "l", " ", "l", "i", "n", "e", "s", ":", "*", "*", " ">> \o FormatNumber(sr.TotalLines) \o <<"\n">>
              \o <<"*", "*", "E", "x", "c", "l", "u", "d", "e", "d", " ", "f", "i", "l", "e", "s", ":", "*", "*", " ">> \o Decimal(sr.ExcludedFiles) \o <<"\n", "\n">>
              \o <<"#", "#", " ", "F", "i", "l", "e", " ", "E", "x", "t", "e", "n", "s", "i", "o", "n", "s", "\n", "\n">>
              \o Flatten([i \in 1..Min2(Len(sortedExts), 10) |-> extLine(sortedExts[i])])
              \o <<"\n">>
              \o (IF Len(sr.LargestFiles) > 0
                  THEN <<"#", "#", " ", "L", "a", "r", "g", "e", "s", "t", " ", "F", "i", "l", "e", "s", "\n", "\n">>
                       \o Flatten([i \in 1..Min2(Len(sr.LargestFiles), 5) |->
                                     fileLine(sr.LargestFiles[i])])
                       \o <<"\n">>
                  ELSE <<>>)) >>,
       Files |-> <<>>]

\* ContextGenerator.buildDirectoryTree
buildDirectoryTree(files) ==
  LET sortedDirs == SortStrings({ Dir(files[k].Path) : k \in 1..Len(files) })
      line(dir) ==
        LET rel == getRelativePath(dir)
        IN  Repeat(<<" ", " ">>, CountSeparators(rel)) \o Base(rel) \o <<"/", "\n">>
  IN  Flatten([i \in 1..Min2(Len(sortedDirs), 51) |-> line(sortedDirs[i])])
      \o (IF Len(sortedDirs) > 51 THEN <<".", ".", ".", " ", "(", "t", "r", "u", "n", "c", "a", "t", "e", "d", ")", "\n">> ELSE <<>>)

\* ContextGenerator.generateStructureSection ("~" stands for a backquote)
generateStructureSection(sr) ==
  [Title |-> <<"D", "i", "r", "e", "c", "t", "o", "r", "y", " ", "S", "t", "r", "u", "c", "t", "u", "r", "e">>,
   Content |-> << Text(<<"#", " ", "D", "i", "r", "e", "c", "t", "o", "r", "y", " ", "S", "t", "r", "u", "c", "t", "u", "r", "e", "\n", "\n">> \o <<"~", "~", "~", "\n">>
                       \o buildDirectoryTree(sr.Files) \o <<"~", "~", "~", "\n", "\n">>) >>,
   Files |-> <<>>]

\* ContextGenerator.generateFileTypeSection, the extensions in the order
\* sortExtensionsByPriority returned
generateFileTypeSection(sr, sortedExts) ==
  LET fileLine(f) ==
        <<" ", " ", "-", " ">> \o getRelativePath(f.Path)
        \o (IF f.Size > KB THEN <<" ", "(">> \o FormatSize(f.Size) \o <<")">> ELSE <<>>)
        \o (IF f.Lines > 0 THEN <<" ", "-", " ">> \o Decimal(f.Lines) \o <<" ", "l", "i", "n", "e", "s">> ELSE <<>>)
        \o <<"\n">>
      group(e) ==
        LET files      == FilesByExt(sr.Files, e)
            totalSize  == SumOver(1..Len(files), [k \in 1..Len(files) |-> files[k].Size])
            totalLines == SumOver(1..Len(files), [k \in 1..Len(files) |-> files[k].Lines])
        IN  <<"#", "#", " ">> \o e \o <<" ", "F", "i", "l", "e", "s", " ", "(">> \o Decimal(Len(files)) \o <<" ", "f", "i", "l", "e", "s", ")", "\n", "\n">>
            \o <<"-", " ", "*", "*", "T", "o", "t", "a", "l", " ", "s", "i", "z", "e", ":", "*", "*", " ">> \o FormatSize(totalSize) \o <<"\n">>
            \o (IF totalLines > 0
                THEN <<"-", " ", "*", "*", "T", "o", "t", "a", "l", " ", "l", "i", "n", "e", "s", ":", "*", "*", " ">> \o FormatNumber(totalLines) \o <<"\n">>
                ELSE <<>>)
            \o <<"-", " ", "*", "*", "F", "i", "l", "e", "s", ":", "*", "*", "\n">>
            \o (IF Len(files) > 20
                THEN <<" ", " ", "(", "S", "h", "o", "w", "i", "n", "g", " ", "2", "0", " ", "o", "f", " ">> \o Decimal(Len(files)) \o <<" ", "f", "i", "l", "e", "s", ")", "\n">>
                ELSE <<>>)
            \o Flatten([i \in 1..Min2(Len(files), 20) |-> fileLine(files[i])])
            \o <<"\n">>
  IN  [Title |-> <<"F", "i", "l", "e", " ", "T", "y", "p", "e", " ", "A", "n", "a", "l", "y", "s", "i", "s">>,
       Content |-> << Text(<<"#", " ", "F", "i", "l", "e", " ", "T", "y", "p", "e", " ", "A", "n", "a", "l", "y", "s", "i", "s", "\n", "\n">>
                           \o Flatten([i \in 1..Len(sortedExts) |-> group(sortedExts[i])])) >>,
       Files |-> <<>>]

\* ContextGenerator.generateContentSections, given the sorted candidates and
\* the order in which the range over filesByType yields the extensions
generateContentSections(order, typeOrder, unreadable, maxFileSize, maxTotalSize) ==
  LET selected == selectFilesForContent(order, maxFileSize, maxTotalSize)
      section(e) ==
        LET sec == generateFileContentSection(e, FilesOfType(selected, e), unreadable,
                                              maxFileSize, maxTotalSize)
        IN  [Title |-> sec.Title, Content |-> sec.Content, Files |-> sec.Files]
  IN  [i \in 1..Len(typeOrder) |-> section(typeOrder[i])]

\* The extensions generateSummary's range over scanResult.Extensions can
\* leave in maxExt: those with the greatest count
MaxExts(extensions) ==
  { e \in DOMAIN extensions : \A x \in DOMAIN extensions : extensions[x] <= extensions[e] }

\* ContextGenerator.generateSummary, for the extension left in maxExt
generateSummary(sr, sections, maxExt) ==
  <<"#", "#", " ", "C", "o", "n", "t", "e", "x", "t", " ", "S", "u", "m", "m", "a", "r", "y", "\n", "\n">>
  \o <<"T", "h", "i", "s", " ", "c", "o", "n", "t", "e", "x", "t", " ", "c", "o", "n", "t", "a", "i", "n", "s", " ", "i", "n", "f", "o", "r", "m", "a", "t", "i", "o", "n", " ", "a", "b", "o", "u", "t", " ", "a", " ", "p", "r", "o", "j", "e", "c", "t", " ", "w", "i", "t", "h", " ">>
  \o Decimal(sr.TotalFiles) \o <<" ", "f", "i", "l", "e", "s", " ">>
  \o <<"t", "o", "t", "a", "l", "i", "n", "g", " ">> \o FormatSize(sr.TotalSize) \o <<" ", "a", "c", "r", "o", "s", "s", " ">>
  \o Decimal(sr.TotalDirectories) \o <<" ", "d", "i", "r", "e", "c", "t", "o", "r", "i", "e", "s", ".", " ">>
  \o (IF DOMAIN sr.Extensions # {} /\ maxExt # <<>>
      THEN <<"T", "h", "e", " ", "p", "r", "o", "j", "e", "c", "t", " ", "p", "r", "i", "m", "a", "r", "i", "l", "y", " ", "c", "o", "n", "s", "i", "s", "t", "s", " ", "o", "f", " ">> \o maxExt \o <<" ", "f", "i", "l", "e", "s", " ", "(">>
           \o Decimal(sr.Extensions[maxExt]) \o <<" ", "f", "i", "l", "e", "s", ")", ".", " ">>
      ELSE <<>>)
  \o <<"T", "h", "e", " ", "c", "o", "n", "t", "e", "x", "t", " ", "i", "n", "c", "l", "u", "d", "e", "s", " ">> \o Decimal(Len(sections))
  \o <<" ", "s", "e", "c", "t", "i", "o", "n", "s", " ", "w", "i", "t", "h", " ", "d", "e", "t", "a", "i", "l", "e", "d", " ", "i", "n", "f", "o", "r", "m", "a", "t", "i", "o", "n", " ", "a", "b", "o", "u", "t", " ", "t", "h", "e", " ", "p", "r", "o", "j", "e", "c", "t", " ", "s", "t", "r", "u", "c", "t", "u", "r", "e", " ", "a", "n", "d", " ", "c", "o", "n", "t", "e", "n", "t", "s", ".">>

\* The sum of len(section.Content) over the sections
RECURSIVE SectionsLen(_)
SectionsLen(sections) ==
  IF sections = <<>> THEN 0
  ELSE ContentLen(sections[1].Content) + SectionsLen(Tail(sections))

\* Mutant: the summary is left out of the estimate
estimateTokensSectionsOnly(sections, summary) == SectionsLen(sections) \div 4

\* ContextGenerator.estimateTokens
estimateTokens(sections, summary) == (SectionsLen(sections) + Len(summary)) \div 4

\* ContextPreviewModel.calculateTokenEstimate: Characters and Tokens
calculateTokenEstimate(sections) ==
  [Characters |-> SectionsLen(sections), Tokens |-> SectionsLen(sections) \div 4]

\* The outcome of a call that dereferences a nil pointer: the goroutine panics
Panic == [panic |-> <<"i", "n", "v", "a", "l", "i", "d", " ", "m", "e", "m", "o", "r", "y", " ", "a", "d", "d", "r", "e", "s", "s", " ", "o", "r", " ", "n", "i", "l", " ", "p", "o", "i", "n", "t", "e", "r", " ", "d", "e", "r", "e", "f", "e", "r", "e", "n", "c", "e">>]

\* The values GenerateContext can return for a scan result that is not nil:
\* one for each order in which the ranges over its maps yield their keys.
\* sorted is what sort.Slice makes of the scored candidates (a function of the
\* input slice), unreadable the paths readFileContent fails on
GenerateContext(sr, projectName, opts, sorted, unreadable, now) ==
  LET selected == selectFilesForContent(sorted, opts.maxFileSize, opts.maxTotalSize)
      types    == { SectionOf(selected[k]) : k \in 1..Len(selected) }
      bundle(byCount, byPriority, typeOrder, maxExt) ==
        LET fixed    == << generateOverviewSection(sr, byCount),
                           generateStructureSection(sr),
                           generateFileTypeSection(sr, byPriority) >>
            sections == IF opts.includeContent
                        THEN fixed \o generateContentSections(sorted, typeOrder, unreadable,
                                                              opts.maxFileSize,
                                                              opts.maxTotalSize)
                        ELSE fixed
            summary  == IF opts.includeSummary
                        THEN generateSummary(sr, sections, maxExt)
                        ELSE <<>>
        IN  [ProjectName |-> projectName,
             GeneratedAt |-> now,
             TotalFiles |-> sr.TotalFiles,
             TotalSize |-> sr.TotalSize,
             Sections |-> sections,
             Summary |-> summary,
             TokenEstimate |-> estimateTokens(sections, summary)]
  IN  { [result |-> bundle(c, p, t, m), err |-> Nil] :
          c \in sortExtensionsByCount(sr.Extensions),
          p \in sortExtensionsByPriority(sr.Files),
          t \in Arrangements(types),
          m \in IF DOMAIN sr.Extensions = {} THEN { <<>> } ELSE MaxExts(sr.Extensions) }

\* ---- the inputs of GenerateContext ----
\* Files per scan result
MaxGenFiles == 2

\* A FileInfo of ScanResult.Files
GenFile(path, size, lines) ==
  [Path |-> path, Size |-> size, Lines |-> lines,
   Extension |-> ToLower(Ext(path)), IsDirectory |-> FALSE,
   IsExcluded |-> FALSE, ExcludeReason |-> NoReason]

\* Files under the working directory /w, in the order a scan meets them: a
\* file without extension, two source files, a file above 1 KB
GenPool ==
  << GenFile(<<"/", "w", "/", "M", "a", "k", "e", "f", "i", "l", "e">>, 30, 1),
     GenFile(<<"/", "w", "/", "c", "m", "d", "/", "r", "u", "n", ".", "g", "o">>, 30, 2),
     GenFile(<<"/", "w", "/", "d", "o", "c", "s", "/", "N", "O", "T", "E", "S">>, 2000, 0),
     GenFile(<<"/", "w", "/", "m", "a", "i", "n", ".", "g", "o">>, 80, 4) >>

\* ScanResult.Files: up to n files of the pool, in the order of the scan
GenLists(n) ==
  { l \in UNION { [1..m -> Range(GenPool)] : m \in 0..n } :
      \A a, b \in 1..Len(l) :
         a < b => \E i, j \in 1..Len(GenPool) :
                     i < j /\ GenPool[i] = l[a] /\ GenPool[j] = l[b] }

\* The result of a scan that found these files
RECURSIVE CountFiles(_, _)
CountFiles(res, files) ==
  IF files = <<>> THEN res ELSE CountFiles(CountFile(res, Head(files)), Tail(files))

ScanResultOf(files) ==
  LET dirs    == { Dir(files[k].Path) : k \in 1..Len(files) } \ { Wd }
      counted == CountFiles(EmptyResult, files)
  IN  [TotalFiles |-> counted.TotalFiles,
       TotalDirectories |-> Cardinality(dirs),
       TotalSize |-> counted.TotalSize,
       TotalLines |-> counted.TotalLines,
       ExcludedFiles |-> 0,
       Files |-> counted.Files,
       Extensions |-> counted.Extensions,
       LargestFiles |-> processResults(counted).LargestFiles,
       ScanDuration |-> <<"1", "2", "m", "s">>]

\* SetOptions: the default per-file limit; a total of 100 bytes or the
\* default 10 MB; content and summary on or off
GenOptions ==
  [maxFileSize : { 50 * KB }, maxTotalSize : { 100, 10 * KB * KB },
   includeContent : BOOLEAN, includeSummary : BOOLEAN]

\* A call: a scan result (or nil), the options, what sort.Slice makes of the
\* candidates, the files that cannot be read, the two values returned, and
\* the estimate of the preview opened on the first
GenCall(sr, o, s, u) ==
  [fn |-> "GenerateContext", scanResult |-> sr, options |-> o,
   sorted |-> s, unreadable |-> u, first |-> Nil, second |-> Nil,
   preview |-> Nil]

InitGenerate ==
  /\ ScannerAtRest
  /\ ft = Nil
  /\ appModel = Nil
  /\ NoComponents
  /\ \E o \in GenOptions :
       \/ call = GenCall(Nil, o, <<>>, {})
       \/ \E l \in GenLists(MaxGenFiles) :
          \E s \in SortedByScore(scoredFiles(l)) :
          \E u \in SUBSET { s[k].Path : k \in 1..Len(s) } :
             call = GenCall(ScanResultOf(l), o, s, u)

ProjectName == <<"w">>

\* cg.GenerateContext(scanResult, projectName), the first call
CallGenerateContext ==
  /\ call.fn = "GenerateContext"
  /\ call.first = Nil
  /\ IF call.scanResult = Nil
     THEN call' = [call EXCEPT !.first = Panic]
     ELSE \E r \in GenerateContext(call.scanResult, ProjectName, call.options,
                                   call.sorted, call.unreadable, 1) :
            call' = [call EXCEPT !.first = r]
  /\ UNCHANGED <<scannerVars, ft, appModel, components>>

\* The same call again: same scan result, same options, same files
CallGenerateContextAgain ==
  /\ call.fn = "GenerateContext"
  /\ call.first # Nil
  /\ call.first # Panic
  /\ call.second = Nil
  /\ \E r \in GenerateContext(call.scanResult, ProjectName, call.options,
                              call.sorted, call.unreadable, 2) :
       call' = [call EXCEPT !.second = r]
  /\ UNCHANGED <<scannerVars, ft, appModel, components>>

\* NewContextPreviewModel(result, scanResult).calculateTokenEstimate()
CallCalculateTokenEstimate ==
  /\ call.fn = "GenerateContext"
  /\ call.first # Nil
  /\ call.first # Panic
  /\ call.preview = Nil
  /\ call' = [call EXCEPT !.preview = calculateTokenEstimate(call.first.result.Sections)]
  /\ UNCHANGED <<scannerVars, ft, appModel, components>>

NextGenerate ==
  CallGenerateContext \/ CallGenerateContextAgain \/ CallCalculateTokenEstimate

SpecGenerate == InitGenerate /\ [][NextGenerate]_vars

GenerateReturned(out) == out # Nil /\ out # Panic
GeneratedTwice ==
  call.fn = "GenerateContext" /\ GenerateReturned(call.first) /\ GenerateReturned(call.second)

\* C21: two GenerateContext calls for the same ScanResult, the same options
\* and unchanged files return the same sections in the same order, the same
\* summary and the same token estimate
C21_GenerateContextDeterministic ==
  GeneratedTwice =>
    /\ call.first.result.Sections = call.second.result.Sections
    /\ call.first.result.Summary = call.second.result.Summary
    /\ call.first.result.TokenEstimate = call.second.result.TokenEstimate

\* The sections written from file contents: those after the three fixed ones
ContentSectionsOf(out) == SubSeq(out.result.Sections, 4, Len(out.result.Sections))

\* What a section holds before its truncation marker (all of it without one)
BeforeMarker(content) ==
  IF content # <<>> /\ content[Len(content)] = TruncationMarker
  THEN SubSeq(content, 1, Len(content) - 1)
  ELSE content

\* C22: in a content section the rendered size before the truncation marker
\* never exceeds maxTotalSize (a file that would take it above is not added)
C22_SectionWithinTotalSize ==
  (call.fn = "GenerateContext" /\ GenerateReturned(call.first)) =>
    \A k \in 1..Len(ContentSectionsOf(call.first)) :
       ContentLen(BeforeMarker(ContentSectionsOf(call.first)[k].Content))
         <= call.options.maxTotalSize

\* C23: GenerateContext called with a nil ScanResult returns an error and no
\* bundle, without crashing
C23_NilScanResultIsAnError ==
  (call.fn = "GenerateContext" /\ call.scanResult = Nil /\ call.first # Nil) =>
    /\ call.first # Panic
    /\ call.first.result = Nil
    /\ call.first.err # Nil

\* The files selected for the content sections of the call
GenSelected ==
  selectFilesForContent(call.sorted, call.options.maxFileSize, call.options.maxTotalSize)

\* The content sections of a returned value with this title
SectionsTitled(out, title) ==
  { sec \in Range(ContentSectionsOf(out)) : sec.Title = title }

Truncated(content) == content # <<>> /\ content[Len(content)] = TruncationMarker

\* The file's heading is followed by the error marker
HasErrorMarker(content, file) ==
  \E i \in 1..(Len(content) - 1) :
     content[i] = FileHeading(file) /\ content[i + 1] = ErrorMarker(file)

\* The file's heading is followed by its fenced content
HasBlock(content, file) ==
  \E i \in 1..(Len(content) - 3) :
     content[i] = FileHeading(file) /\ SubSeq(content, i + 1, i + 3) = FileBlock(file)

\* The selected files of a type that can be read, in the order selected
ReadableOfType(ext) ==
  LET ok(f) == f.Path \notin call.unreadable /\ f.Size <= call.options.maxFileSize
  IN  SelectSeq(FilesOfType(GenSelected, ext), ok)

\* C24: with files that cannot be read GenerateContext still succeeds; such a
\* file gets the error marker in place of its block and is not listed in
\* Files, and every file that can be read is rendered as usual: a section
\* lists its readable files in order, all of them unless it was truncated
C24_UnreadableFileGetsMarker ==
  (call.fn = "GenerateContext" /\ call.scanResult # Nil /\ call.first # Nil
     /\ call.options.includeContent) =>
    /\ call.first # Panic
    /\ call.first.err = Nil
    /\ \A k \in 1..Len(GenSelected) :
         LET f     == GenSelected[k]
             title == sectionTitle(SectionOf(f))
         IN  /\ Cardinality(SectionsTitled(call.first, title)) = 1
             /\ \A sec \in SectionsTitled(call.first, title) :
                  /\ f.Path \in call.unreadable =>
                       /\ ~HasBlock(sec.Content, f)
                       /\ \A i \in 1..Len(sec.Content) : sec.Content[i] # Body(f)
                       /\ getRelativePath(f.Path) \notin Range(sec.Files)
                       /\ ~Truncated(sec.Content) => HasErrorMarker(sec.Content, f)
                  /\ LET readable == ReadableOfType(SectionOf(f))
                     IN  /\ Len(sec.Files) <= Len(readable)
                         /\ \A i \in 1..Len(sec.Files) :
                              /\ sec.Files[i] = getRelativePath(readable[i].Path)
                              /\ HasBlock(sec.Content, readable[i])
                         /\ ~Truncated(sec.Content) => Len(sec.Files) = Len(readable)

\* A file that cannot be read comes before a readable one of the same
\* section, which is rendered
C24_Witness ==
  /\ call.fn = "GenerateContext" /\ GenerateReturned(call.first)
  /\ call.options.includeContent
  /\ \E a, b \in 1..Len(GenSelected) :
       /\ a < b
       /\ SectionOf(GenSelected[a]) = SectionOf(GenSelected[b])
       /\ GenSelected[a].Path \in call.unreadable
       /\ GenSelected[b].Path \notin call.unreadable
       /\ \E sec \in SectionsTitled(call.first, sectionTitle(SectionOf(GenSelected[a]))) :
            /\ HasErrorMarker(sec.Content, GenSelected[a])
            /\ HasBlock(sec.Content, GenSelected[b])

\* The number of characters of the section contents of a bundle
SectionChars(bundle) ==
  SumOver(1..Len(bundle.Sections),
          [k \in 1..Len(bundle.Sections) |-> ContentLen(bundle.Sections[k].Content)])

\* C25: TokenEstimate is the integer quotient by 4 of the characters of all
\* section contents plus the summary (nothing for the summary when
\* includeSummary is false); the preview's tokens are its characters over 4
C25_TokenEstimateIsCharsOverFour ==
  (call.fn = "GenerateContext" /\ GenerateReturned(call.first)) =>
    LET bundle == call.first.result
    IN  /\ ~call.options.includeSummary => bundle.Summary = <<>>
        /\ bundle.TokenEstimate =
             (SectionChars(bundle)
                + (IF call.options.includeSummary THEN Len(bundle.Summary) ELSE 0)) \div 4
        /\ call.preview # Nil =>
             /\ call.preview.Characters = SectionChars(bundle)
             /\ call.preview.Tokens = call.preview.Characters \div 4

\* A bundle with content sections and a summary that adds to the estimate,
\* and a preview of it
C25_Witness ==
  /\ call.fn = "GenerateContext" /\ GenerateReturned(call.first)
  /\ call.options.includeSummary
  /\ Len(call.first.result.Sections) > 3
  /\ call.first.result.TokenEstimate > SectionChars(call.first.result) \div 4
  /\ call.preview # Nil
  /\ call.preview.Tokens > 0
  /\ call.preview.Characters % 4 # 0

\* ================================================================
\* FolderTree: the lazily loaded tree of the folder browser
\* ================================================================
\* Entries of a tree on disk
TreeNodes == 2

\* NewFolderTree's maxDepth
TreeMaxDepth == 10

SortTypes == { "SortByName", "SortBySize", "SortByDate", "SortByType" }

TreeEntry(name, isDir, size, modTime) ==
  [name |-> name, isDir |-> isDir, size |-> size, lines |-> 1,
   infoErr |-> FALSE, readErr |-> FALSE, modTime |-> modTime]

\* What entry i may be: a directory, a hidden directory, a directory that
\* cannot be listed, a file whose name starts in lower case, an older and
\* smaller file whose name starts in upper case
TreeKinds(i) ==
  { TreeEntry(DirName(i), TRUE, 3, 1),
    TreeEntry(<<".", "h">> \o DigitOf(i), TRUE, 3, 2),
    [TreeEntry(<<"x">> \o DigitOf(i), TRUE, 3, 1) EXCEPT !.readErr = TRUE],
    TreeEntry(GoName(i), FALSE, 2, 2),
    TreeEntry(<<"B">> \o DigitOf(i) \o <<".", "m", "d">>, FALSE, 1, 1) }

RECURSIVE TreeDisksOfSize(_)
TreeDisksOfSize(n) ==
  IF n = 0 THEN { [n |-> 0, parent |-> <<>>, node |-> <<>>] }
  ELSE { [n |-> n, parent |-> Append(t.parent, p), node |-> Append(t.node, k)] :
           t \in TreeDisksOfSize(n - 1), p \in 0..(n - 1), k \in TreeKinds(n) }

\* The directories browsed: the root can be listed
TreeFileSystems ==
  UNION { { [n |-> t.n, parent |-> t.parent, node |-> t.node, rootReadErr |-> FALSE] :
              t \in { u \in TreeDisksOfSize(n) : WellFormed(u) } } :
          n \in 0..TreeNodes }

\* strings.HasPrefix(entry.Name(), ".")
IsHiddenEntry(i) == HasPrefix(fs.node[i].name, <<".">>)

\* The child node loadChildren makes of entry c: a directory gets the
\* statistics of calculateStats, and is expanded if its path is in
\* expandedPaths
NewFolderNode(t, c, level) ==
  LET stats == GetFolderStats(c, t.showHidden)
  IN  [IsExpanded |-> PathOf(c) \in t.expandedPaths,
       IsSelected |-> FALSE,
       Children |-> <<>>,
       Level |-> level,
       Size |-> IF fs.node[c].isDir THEN stats.TotalSize ELSE fs.node[c].size,
       FileCount |-> IF fs.node[c].isDir THEN stats.TotalFiles ELSE 0,
       DirCount |-> IF fs.node[c].isDir THEN stats.TotalDirectories ELSE 0]

\* The comparison of sortChildren: directories first, then the sort type,
\* then the name in lower case
ChildLess(sortBy, nodes, a, b) ==
  LET byName == StrLess(ToLower(fs.node[a].name), ToLower(fs.node[b].name))
  IN  IF fs.node[a].isDir # fs.node[b].isDir THEN fs.node[a].isDir
      ELSE IF sortBy = "SortBySize" /\ nodes[a].Size # nodes[b].Size
           THEN nodes[a].Size > nodes[b].Size
      ELSE IF sortBy = "SortByDate" /\ fs.node[a].modTime # fs.node[b].modTime
           THEN fs.node[a].modTime > fs.node[b].modTime
      ELSE IF sortBy = "SortByType" /\ Ext(fs.node[a].name) # Ext(fs.node[b].name)
           THEN StrLess(Ext(fs.node[a].name), Ext(fs.node[b].name))
      ELSE byName

\* Mutant: directories and files are sorted together
sortChildrenMixed(sortBy, nodes, children) ==
  LET less(a, b) ==
        IF sortBy = "SortBySize" /\ nodes[a].Size # nodes[b].Size
        THEN nodes[a].Size > nodes[b].Size
        ELSE IF sortBy = "SortByDate" /\ fs.node[a].modTime # fs.node[b].modTime
             THEN fs.node[a].modTime > fs.node[b].modTime
        ELSE IF sortBy = "SortByType" /\ Ext(fs.node[a].name) # Ext(fs.node[b].name)
             THEN StrLess(Ext(fs.node[a].name), Ext(fs.node[b].name))
        ELSE StrLess(ToLower(fs.node[a].name), ToLower(fs.node[b].name))
  IN  SortOutcomes(children, less)

\* FolderTree.sortChildren: what sort.Slice can make of the children
sortChildren(sortBy, nodes, children) ==
  LET less(a, b) == ChildLess(sortBy, nodes, a, b)
  IN  SortOutcomes(children, less)

\* FolderTree.loadChildren(node): the trees it can leave. The node's old
\* children are replaced by new nodes, one for each entry that is shown and
\* whose Info() succeeds; a child directory that is expanded has its own
\* children loaded; the children are sorted. Nothing is loaded for a file, at
\* maxDepth, or when the directory cannot be read.
RECURSIVE loadChildren(_, _, _)
RECURSIVE LoadExpanded(_, _, _)
loadChildren(t, nodes, i) ==
  IF ~IsDirectory(i) \/ nodes[i].Level >= t.maxDepth \/ ReadDirFails(i) THEN { nodes }
  ELSE LET kept  == { c \in Children(i) :
                        /\ ~(~t.showHidden /\ IsHiddenEntry(c))
                        /\ ~fs.node[c].infoErr }
           fresh == [j \in (DOMAIN nodes \ Below(i)) \cup kept |->
                       IF j \in kept THEN NewFolderNode(t, j, nodes[i].Level + 1)
                       ELSE nodes[j]]
       IN  { [n EXCEPT ![i].Children = order] :
               n \in LoadExpanded(t, fresh,
                                  { c \in kept : fs.node[c].isDir /\ fresh[c].IsExpanded }),
               order \in sortChildren(t.sortBy, fresh, kept) }

\* loadChildren(child) for each expanded child directory
LoadExpanded(t, nodes, S) ==
  IF S = {} THEN { nodes }
  ELSE LET c == CHOOSE x \in S : TRUE
       IN  UNION { LoadExpanded(t, n, S \ {c}) : n \in loadChildren(t, nodes, c) }

\* FolderTree.buildTree: a new root, expanded, and its children
buildTree(t) ==
  loadChildren(t, 0 :> [IsExpanded |-> TRUE, IsSelected |-> FALSE,
                        Children |-> <<>>, Level |-> 0,
                        Size |-> 0, FileCount |-> 0, DirCount |-> 0], 0)

\* FolderTree.collectVisibleNodes
RECURSIVE collectVisibleNodes(_, _)
collectVisibleNodes(nodes, i) ==
  <<i>> \o (IF nodes[i].IsExpanded
            THEN Flatten([k \in 1..Len(nodes[i].Children) |->
                            collectVisibleNodes(nodes, nodes[i].Children[k])])
            ELSE <<>>)

\* FolderTree.GetVisibleNodes
GetVisibleNodes(nodes) == collectVisibleNodes(nodes, 0)

\* Mutant: CollapseNode leaves the children as they are
CollapseNodeShallow(st, i) ==
  IF ~IsDirectory(i) \/ ~st.nodes[i].IsExpanded THEN st
  ELSE [nodes |-> [st.nodes EXCEPT ![i].IsExpanded = FALSE],
        expandedPaths |-> st.expandedPaths \ { PathOf(i) }]

\* FolderTree.CollapseNode(node) on the nodes and expandedPaths st
RECURSIVE CollapseNode(_, _)
RECURSIVE CollapseChildren(_, _)
CollapseNode(st, i) ==
  IF ~IsDirectory(i) \/ ~st.nodes[i].IsExpanded THEN st
  ELSE CollapseChildren([nodes |-> [st.nodes EXCEPT ![i].IsExpanded = FALSE],
                         expandedPaths |-> st.expandedPaths \ { PathOf(i) }],
                        st.nodes[i].Children)

\* CollapseNode's loop over the children
CollapseChildren(st, children) ==
  IF children = <<>> THEN st
  ELSE CollapseChildren(IF IsDirectory(Head(children))
                        THEN CollapseNode(st, Head(children)) ELSE st,
                        Tail(children))

\* The last operation on the tree: its name and node, whether its guard let
\* it act, whether it returned an error, whether it changed the nodes or the
\* expanded paths, and whether a directory below the node was expanded
\* before it
LastOp(op, i, acted, err, before, after) ==
  [op |-> op, node |-> i, acted |-> acted, err |-> err,
   changed |-> before.nodes # after.nodes
               \/ before.expandedPaths # after.expandedPaths,
   deep |-> \E j \in Below(i) \cap DOMAIN before.nodes : before.nodes[j].IsExpanded]

\* A nil *FolderNode
NoNode == -1

\* NewFolderTree(rootPath); selectedNode is the entry the selected node was
\* built for
NewFolderTree ==
  LET t == [showHidden |-> FALSE, sortBy |-> "SortByName", expandedPaths |-> {},
            maxDepth |-> TreeMaxDepth]
  IN  { [showHidden |-> t.showHidden, sortBy |-> t.sortBy,
         expandedPaths |-> t.expandedPaths, maxDepth |-> t.maxDepth,
         nodes |-> n, selectedNode |-> NoNode,
         last |-> [op |-> "NewFolderTree", node |-> 0, acted |-> TRUE, err |-> FALSE,
                   changed |-> TRUE, deep |-> FALSE]] :
          n \in buildTree(t) }

InitTree ==
  /\ NewScanner(TreeFileSystems, { c \in Configs : c.MaxDepth = 0 })
  /\ call = NoCall
  /\ appModel = Nil
  /\ NoComponents
  /\ ft \in NewFolderTree

treeAtRest == <<scannerVars, call, appModel, components>>

\* ft.ExpandNode(node) for a node GetVisibleNodes returned
ExpandNode(i) ==
  /\ ft # Nil
  /\ i \in Range(GetVisibleNodes(ft.nodes))
  /\ IF ~IsDirectory(i) \/ ft.nodes[i].IsExpanded
     THEN ft' = [ft EXCEPT !.last = LastOp("ExpandNode", i, FALSE, FALSE, ft, ft)]
     ELSE LET marked == [ft EXCEPT !.nodes[i].IsExpanded = TRUE,
                                   !.expandedPaths = @ \cup { PathOf(i) }]
          IN  \E n \in loadChildren(marked, marked.nodes, i) :
                ft' = [marked EXCEPT
                         !.nodes = n,
                         !.last = LastOp("ExpandNode", i, TRUE,
                                         ReadDirFails(i) /\ ft.nodes[i].Level < ft.maxDepth,
                                         ft, [marked EXCEPT !.nodes = n])]
  /\ UNCHANGED treeAtRest

\* ft.CollapseNode(node) for a node GetVisibleNodes returned
CollapseNodeOf(i) ==
  /\ ft # Nil
  /\ i \in Range(GetVisibleNodes(ft.nodes))
  /\ LET st == CollapseNode([nodes |-> ft.nodes, expandedPaths |-> ft.expandedPaths], i)
     IN  ft' = [ft EXCEPT
                  !.nodes = st.nodes,
                  !.expandedPaths = st.expandedPaths,
                  !.last = LastOp("CollapseNode", i,
                                  IsDirectory(i) /\ ft.nodes[i].IsExpanded, FALSE, ft, st)]
  /\ UNCHANGED treeAtRest

\* refreshTree: buildTree with the current settings
Refreshed(t, op) ==
  /\ \E n \in buildTree(t) :
       ft' = [t EXCEPT !.nodes = n,
                       !.last = LastOp(op, 0, TRUE, FALSE, ft, [t EXCEPT !.nodes = n])]
  /\ UNCHANGED treeAtRest

\* ft.SetSortType(sortType)
SetSortType(sortType) ==
  /\ ft # Nil
  /\ Refreshed([ft EXCEPT !.sortBy = sortType], "SetSortType")

\* ft.SetShowHidden(show)
SetShowHidden(show) ==
  /\ ft # Nil
  /\ Refreshed([ft EXCEPT !.showHidden = show], "SetShowHidden")

\* ft.SelectNode(node) for a node GetVisibleNodes returned: the node
\* selected before is deselected, whether the tree still holds it or not
SelectNode(i) ==
  /\ ft # Nil
  /\ i \in Range(GetVisibleNodes(ft.nodes))
  /\ LET previous == ft.selectedNode
         held == previous # NoNode /\ previous \in DOMAIN ft.nodes
                 /\ ft.nodes[previous].IsSelected
         deselected == IF held THEN [ft.nodes EXCEPT ![previous].IsSelected = FALSE]
                       ELSE ft.nodes
         after == [ft EXCEPT !.nodes = [deselected EXCEPT ![i].IsSelected = TRUE],
                             !.selectedNode = i]
     IN  ft' = [after EXCEPT !.last = LastOp("SelectNode", i, TRUE, FALSE, ft, after)]
  /\ UNCHANGED treeAtRest

NextNavigate ==
  \/ \E i \in 0..fs.n : ExpandNode(i)
  \/ \E i \in 0..fs.n : CollapseNodeOf(i)

NextTree ==
  \/ NextNavigate
  \/ \E s \in SortTypes : SetSortType(s)
  \/ \E b \in BOOLEAN : SetShowHidden(b)

\* The tree under ExpandNode and CollapseNode alone
SpecNavigate == InitTree /\ [][NextNavigate]_vars

\* The tree under all four operations
SpecTree == InitTree /\ [][NextTree]_vars

NextSelect ==
  \/ NextTree
  \/ \E i \in 0..fs.n : SelectNode(i)

\* The tree under the four operations and SelectNode
SpecSelect == InitTree /\ [][NextSelect]_vars

\* GetSelectedNode() is a node of the current tree
SelectedInTree ==
  /\ ft.selectedNode \in DOMAIN ft.nodes
  /\ ft.nodes[ft.selectedNode].IsSelected

\* C39: after any sequence of SelectNode, ExpandNode, CollapseNode,
\* SetSortType and SetShowHidden at most one node of the current tree has
\* IsSelected set, and a non-nil GetSelectedNode() is that node of the tree
C39_SelectionInCurrentTree ==
  ft # Nil =>
    /\ Cardinality({ i \in DOMAIN ft.nodes : ft.nodes[i].IsSelected }) <= 1
    /\ ft.selectedNode # NoNode => SelectedInTree

\* The part of C39 about the nodes of the tree alone
AtMostOneSelected ==
  ft # Nil => Cardinality({ i \in DOMAIN ft.nodes : ft.nodes[i].IsSelected }) <= 1

\* The entries of directory i the tree shows: not hidden unless showHidden,
\* with metadata that can be read
Shown(i) ==
  { c \in Children(i) : ~(~ft.showHidden /\ IsHiddenEntry(c)) /\ ~fs.node[c].infoErr }

\* C26: ExpandNode on a collapsed directory (one that can be read, above
\* maxDepth) marks it expanded and loads exactly its immediate children, each
\* child directory collapsed with no children of its own; on a file or on an
\* expanded node it changes nothing
C26_ExpandLoadsOneLevel ==
  (ft # Nil /\ ft.last.op = "ExpandNode") =>
    LET i == ft.last.node
    IN  IF ft.last.acted
        THEN ft.last.err
             \/ /\ ft.nodes[i].IsExpanded
                /\ Range(ft.nodes[i].Children) = Shown(i)
                /\ Len(ft.nodes[i].Children) = Cardinality(Shown(i))
                /\ \A c \in Shown(i) :
                     fs.node[c].isDir =>
                       ~ft.nodes[c].IsExpanded /\ ft.nodes[c].Children = <<>>
        ELSE ~ft.last.changed

\* C38: if ExpandNode returns an error because the directory cannot be
\* listed, the tree is as before the call: the node is still collapsed and
\* its path is not in expandedPaths
C38_FailedExpandLeavesTree ==
  (ft # Nil /\ ft.last.op = "ExpandNode" /\ ft.last.err) =>
    /\ ~ft.nodes[ft.last.node].IsExpanded
    /\ PathOf(ft.last.node) \notin ft.expandedPaths
    /\ ~ft.last.changed

C28_CollapseDiscardsChildren ==
  (ft # Nil /\ ft.last.op = "CollapseNode" /\ ft.last.acted) =>
    \A j \in ({ft.last.node} \cup Below(ft.last.node)) \cap DOMAIN ft.nodes :
       ~ft.nodes[j].IsExpanded => ft.nodes[j].Children = <<>>

\* C29: in every loaded children list all directories precede all files,
\* under every sort type; under the default sort nodes of the same kind are
\* in the order of their names in lower case
C29_DirectoriesFirst ==
  ft # Nil =>
    \A j \in DOMAIN ft.nodes :
       LET list == ft.nodes[j].Children
       IN  \A a, b \in 1..Len(list) :
              a < b =>
                /\ ~(~fs.node[list[a]].isDir /\ fs.node[list[b]].isDir)
                /\ (ft.sortBy = "SortByName"
                      /\ fs.node[list[a]].isDir = fs.node[list[b]].isDir) =>
                     ~StrLess(ToLower(fs.node[list[b]].name),
                              ToLower(fs.node[list[a]].name))

\* After a change of sort type and an expansion, a list holds a directory
\* before a file whose name comes first; and under the default sort a list
\* holds a lower-case name before an upper-case one
C29_Witness ==
  /\ ft # Nil
  /\ ft.last.op \in { "ExpandNode", "SetSortType" }
  /\ \E j \in DOMAIN ft.nodes :
       LET list == ft.nodes[j].Children
       IN  \/ /\ ft.sortBy # "SortByName"
              /\ \E a, b \in 1..Len(list) :
                   /\ a < b
                   /\ fs.node[list[a]].isDir /\ ~fs.node[list[b]].isDir
                   /\ StrLess(fs.node[list[b]].name, fs.node[list[a]].name)
           \/ /\ ft.sortBy = "SortByName"
              /\ ft.showHidden
              /\ \E a, b \in 1..Len(list) :
                   /\ a < b
                   /\ ~fs.node[list[a]].isDir /\ ~fs.node[list[b]].isDir
                   /\ StrLess(fs.node[list[b]].name, fs.node[list[a]].name)

\* ================================================================
\* The terminal application: Model.Update and the commands it starts
\* ================================================================
\* Commands of one kind that can be outstanding at a time
MaxPending == 2

\* The index of the last menu item, Exit
LastItem == 4

Keys == { "enter", "r", "esc", "up", "down", "?", "q", "c", "y" }

\* NewModel(), with the commands started and not yet answered: scan commands
\* (scans), generateContext commands (generates), simulateModelLoading ticks
\* (loads), resetToMenuAfterDelay ticks (resets), the browser's selectFolder
\* commands (selects) and the preview's exitPreview commands (exits); and
\* whether the message handled last was the key "esc" arriving while the
\* browser was showing outside its confirm mode (escInBrowser)
NewModel ==
  [cursor |-> 0, loadingState |-> "StateMenu", showingHelp |-> FALSE,
   showingBrowser |-> FALSE, confirmMode |-> FALSE, showingPreview |-> FALSE,
   showingResult |-> FALSE, hasScanResult |-> FALSE, hasContextResult |-> FALSE,
   scans |-> 0, generates |-> 0, loads |-> 0, resets |-> 0, selects |-> 0,
   exits |-> 0, quit |-> FALSE, escInBrowser |-> FALSE]

\* Model.handleMenuAction(index): the models it can return (NewBrowserModel
\* can fail)
handleMenuAction(m, index) ==
  IF index = 0
  THEN { [m EXCEPT !.loadingState = "StateScanning", !.showingResult = FALSE,
                   !.scans = @ + 1] }
  ELSE IF index = 1
  THEN { m, [m EXCEPT !.showingBrowser = TRUE, !.confirmMode = FALSE,
                      !.showingResult = FALSE] }
  ELSE IF index = 2
  THEN IF ~m.hasContextResult THEN { m }
       ELSE { [m EXCEPT !.showingPreview = TRUE, !.showingResult = FALSE] }
  ELSE IF index = 3
  THEN { [m EXCEPT !.loadingState = "StateProcessing", !.loads = @ + 1] }
  ELSE { m }

\* Model.handleScanComplete
handleScanComplete(m, failed) ==
  IF failed
  THEN [m EXCEPT !.loadingState = "StateComplete", !.resets = @ + 1]
  ELSE [m EXCEPT !.hasScanResult = TRUE, !.loadingState = "StateProcessing",
                 !.generates = @ + 1]

\* Model.handleContextGenerated, for the result generateContext returns once
\* a scan result is stored
handleContextGenerated(m) ==
  [m EXCEPT !.hasContextResult = TRUE, !.loadingState = "StateComplete",
            !.showingResult = TRUE]

\* Model.handleFolderSelected, for the folder the browser confirmed
handleFolderSelected(m) ==
  [m EXCEPT !.showingBrowser = FALSE, !.confirmMode = FALSE,
            !.loadingState = "StateScanning", !.scans = @ + 1]

\* BrowserModel.handleKeyPress, as far as the application sees it: "c" on a
\* directory asks for confirmation, "y" or "enter" then starts selectFolder
browserKey(m, key) ==
  IF m.confirmMode
  THEN IF key \in { "y", "enter" }
       THEN { [m EXCEPT !.confirmMode = FALSE, !.selects = @ + 1] }
       ELSE IF key = "esc" THEN { [m EXCEPT !.confirmMode = FALSE] }
       ELSE { m }
  ELSE IF key = "c" THEN { m, [m EXCEPT !.confirmMode = TRUE] }
  ELSE { m }

\* ContextPreviewModel.handleKeyPress, as far as the application sees it:
\* "esc" starts exitPreview unless the preview is in its edit or template mode
previewKey(m, key) ==
  IF key = "esc" THEN { m, [m EXCEPT !.exits = @ + 1] } ELSE { m }

\* Update's case "r": reset to the menu
resetKey(m) == [m EXCEPT !.loadingState = "StateMenu"]

\* Model.Update for a tea.KeyMsg
UpdateKey(m, key) ==
  IF m.showingPreview THEN previewKey(m, key)
  ELSE IF m.showingBrowser THEN browserKey(m, key)
  ELSE IF key = "q"
       THEN IF m.showingHelp THEN { [m EXCEPT !.showingHelp = FALSE] }
            ELSE { [m EXCEPT !.quit = TRUE] }
  ELSE IF key = "esc" THEN { [m EXCEPT !.showingHelp = FALSE] }
  ELSE IF key = "up"
       THEN { IF ~m.showingHelp /\ m.cursor > 0 THEN [m EXCEPT !.cursor = @ - 1] ELSE m }
  ELSE IF key = "down"
       THEN { IF ~m.showingHelp /\ m.cursor < LastItem
              THEN [m EXCEPT !.cursor = @ + 1] ELSE m }
  ELSE IF key = "?" THEN { [m EXCEPT !.showingHelp = TRUE] }
  ELSE IF key = "enter"
       THEN IF m.showingHelp THEN { [m EXCEPT !.showingHelp = FALSE] }
            ELSE IF m.cursor = LastItem THEN { [m EXCEPT !.quit = TRUE] }
            ELSE IF m.loadingState = "StateMenu" THEN handleMenuAction(m, m.cursor)
            ELSE { m }
  ELSE IF key = "r" THEN { resetKey(m) }
  ELSE { m }

\* No counter of outstanding commands is above the bound
WithinPending(m) ==
  \A c \in { m.scans, m.generates, m.loads, m.resets, m.selects, m.exits } :
     c <= MaxPending

\* The model after a message, with the note of what the message was
Handled(m, escInBrowser) == [m EXCEPT !.escInBrowser = escInBrowser]

appAtRest == <<scannerVars, call, ft, components>>

InitApp ==
  /\ ScannerAtRest
  /\ call = NoCall
  /\ ft = Nil
  /\ appModel = NewModel
  /\ NoComponents

Running == appModel # Nil /\ ~appModel.quit

\* The user presses a key
KeyMsg(key) ==
  /\ Running
  /\ \E m \in UpdateKey(appModel, key) :
       /\ WithinPending(m)
       /\ appModel' = Handled(m, /\ key = "esc"
                                 /\ appModel.showingBrowser
                                 /\ ~appModel.confirmMode)
  /\ UNCHANGED appAtRest

\* A resetToMenuAfterDelay tick delivers its KeyMsg "r"
ResetTick ==
  /\ Running
  /\ appModel.resets > 0
  /\ \E m \in UpdateKey([appModel EXCEPT !.resets = @ - 1], "r") :
       appModel' = Handled(m, FALSE)
  /\ UNCHANGED appAtRest

\* A scan command returns: its ScanCompleteMsg is delivered
ScanCompleteMsg(failed) ==
  /\ Running
  /\ appModel.scans > 0
  /\ \E m \in { handleScanComplete([appModel EXCEPT !.scans = @ - 1], failed) } :
       WithinPending(m) /\ appModel' = Handled(m, FALSE)
  /\ UNCHANGED appAtRest

\* A generateContext command returns
ContextGeneratedMsg ==
  /\ Running
  /\ appModel.generates > 0
  /\ appModel' = Handled(handleContextGenerated(
                                [appModel EXCEPT !.generates = @ - 1]), FALSE)
  /\ UNCHANGED appAtRest

\* The simulateModelLoading tick delivers its OperationCompleteMsg
OperationCompleteMsg ==
  /\ Running
  /\ appModel.loads > 0
  /\ \E m \in { [appModel EXCEPT !.loads = @ - 1, !.loadingState = "StateComplete",
                                 !.resets = @ + 1] } :
       WithinPending(m) /\ appModel' = Handled(m, FALSE)
  /\ UNCHANGED appAtRest

\* The browser's selectFolder command delivers folder_selected
FolderSelectedMsg ==
  /\ Running
  /\ appModel.selects > 0
  /\ \E m \in { handleFolderSelected([appModel EXCEPT !.selects = @ - 1]) } :
       WithinPending(m) /\ appModel' = Handled(m, FALSE)
  /\ UNCHANGED appAtRest

\* The preview's exitPreview command delivers exit_preview
ExitPreviewMsg ==
  /\ Running
  /\ appModel.exits > 0
  /\ appModel' = Handled([appModel EXCEPT !.exits = @ - 1,
                                           !.showingPreview = FALSE], FALSE)
  /\ UNCHANGED appAtRest

NextApp ==
  \/ \E key \in Keys : KeyMsg(key)
  \/ ResetTick
  \/ \E failed \in BOOLEAN : ScanCompleteMsg(failed)
  \/ ContextGeneratedMsg
  \/ OperationCompleteMsg
  \/ FolderSelectedMsg
  \/ ExitPreviewMsg

SpecApp == InitApp /\ [][NextApp]_vars

\* C30: no scan command is started while an earlier one has not delivered
\* its ScanCompleteMsg: at most one scan command is outstanding
C30_OneScanAtATime == appModel # Nil => appModel.scans <= 1

\* C36: whenever the folder browser is showing and is not in confirm mode,
\* pressing Esc closes the browser: after that key showingBrowser is false
C36_EscClosesBrowser ==
  (appModel # Nil /\ appModel.escInBrowser) => ~appModel.showingBrowser

\* ================================================================
\* NavigationStack
\* ================================================================
\* Pushes of a screen other than the main menu in one run
MaxOtherPushes == 2

\* NewNavigationStack's maxHistory
maxHistory == 20

\* The IDs of MainMenuScreen and AddContextAllScreen
MainMenuScreen == "main_menu"
AddContextAllScreen == "add_context_all"

\* The zero Screen{}
NoScreen == ""

\* NewNavigationStack()
NewNavigationStack == [history |-> <<>>, current |-> -1]

\* Mutant: Push never drops the oldest screen
PushUnbounded(ns, screen) ==
  LET kept == IF ns.current >= 0 /\ ns.current < Len(ns.history) - 1
              THEN SubSeq(ns.history, 1, ns.current + 1) ELSE ns.history
      added == Append(kept, screen)
  IN [history |-> added, current |-> Len(added) - 1]

\* ns.Push(screen): history is indexed from 1 here, current as in the code
Push(ns, screen) ==
  LET kept == IF ns.current >= 0 /\ ns.current < Len(ns.history) - 1
              THEN SubSeq(ns.history, 1, ns.current + 1) ELSE ns.history
      added == Append(kept, screen)
  IN IF Len(added) > maxHistory
     THEN [history |-> Tail(added), current |-> Len(added) - 2]
     ELSE [history |-> added, current |-> Len(added) - 1]

\* Mutant: Pop goes back to the first screen
PopToFirst(ns) ==
  IF ns.current <= 0 THEN [ns |-> ns, ok |-> FALSE]
  ELSE [ns |-> [ns EXCEPT !.current = 0], ok |-> TRUE]

\* ns.Pop()
Pop(ns) ==
  IF ns.current <= 0 THEN [ns |-> ns, ok |-> FALSE]
  ELSE [ns |-> [ns EXCEPT !.current = @ - 1], ok |-> TRUE]

\* ns.Current()
Current(ns) ==
  IF ns.current < 0 \/ ns.current >= Len(ns.history)
  THEN [screen |-> NoScreen, ok |-> FALSE]
  ELSE [screen |-> ns.history[ns.current + 1], ok |-> TRUE]

\* ns.Previous()
Previous(ns) ==
  IF ns.current <= 0 THEN [screen |-> NoScreen, ok |-> FALSE]
  ELSE [screen |-> ns.history[ns.current], ok |-> TRUE]

\* ns.Clear()
Clear(ns) == [history |-> <<>>, current |-> -1]

\* The stack a caller holds, the pushes of AddContextAllScreen made so far
\* and the last call: its name, what it reported, the length of the history
\* before it and, for Pop, the stack and its Previous() before the call
NavState(ns, pushed, last) == [ns |-> ns, pushed |-> pushed, last |-> last]

NoNavCall == [op |-> "", ok |-> TRUE, len |-> 0, before |-> Nil, previous |-> Nil]

navAtRest == <<scannerVars, call, ft, appModel, toastManager, progressModel,
               contextPreview, monitor>>

InitNav ==
  /\ ScannerAtRest
  /\ call = NoCall
  /\ ft = Nil
  /\ appModel = Nil
  /\ toastManager = Nil
  /\ progressModel = Nil
  /\ contextPreview = Nil
  /\ monitor = Nil
  /\ navStack = NavState(NewNavigationStack, 0, NoNavCall)

\* ns = ns.Push(MainMenuScreen)
PushMainMenu ==
  /\ navStack' = NavState(Push(navStack.ns, MainMenuScreen), navStack.pushed,
                          [NoNavCall EXCEPT !.op = "Push",
                                            !.len = Len(navStack.ns.history)])
  /\ UNCHANGED navAtRest

\* ns = ns.Push(AddContextAllScreen)
PushAddContextAll ==
  /\ navStack.pushed < MaxOtherPushes
  /\ navStack' = NavState(Push(navStack.ns, AddContextAllScreen),
                          navStack.pushed + 1,
                          [NoNavCall EXCEPT !.op = "Push",
                                            !.len = Len(navStack.ns.history)])
  /\ UNCHANGED navAtRest

\* ns, ok = ns.Pop()
PopScreen ==
  /\ navStack' = NavState(Pop(navStack.ns).ns, navStack.pushed,
                          [op |-> "Pop", ok |-> Pop(navStack.ns).ok,
                           len |-> Len(navStack.ns.history),
                           before |-> navStack.ns,
                           previous |-> Previous(navStack.ns)])
  /\ UNCHANGED navAtRest

\* ns = ns.Clear()
ClearStack ==
  /\ navStack' = NavState(Clear(navStack.ns), navStack.pushed,
                          [NoNavCall EXCEPT !.op = "Clear",
                                            !.len = Len(navStack.ns.history)])
  /\ UNCHANGED navAtRest

NextNav ==
  \/ PushMainMenu
  \/ PushAddContextAll
  \/ PopScreen
  \/ ClearStack

SpecNav == InitNav /\ [][NextNav]_vars

\* C31: after any sequence of Push, Pop and Clear the history holds at most
\* maxHistory screens, current is -1 exactly when the history is empty and
\* otherwise 0 <= current < len(history), and Current() succeeds exactly when
\* the history is not empty
C31_StackWellFormed ==
  navStack # Nil =>
    LET ns == navStack.ns
    IN /\ Len(ns.history) <= maxHistory
       /\ (ns.current = -1) <=> (Len(ns.history) = 0)
       /\ Len(ns.history) > 0 => 0 <= ns.current /\ ns.current < Len(ns.history)
       /\ Current(ns).ok <=> (Len(ns.history) > 0)

\* A Push on a full history has dropped the oldest screen
C31_Witness ==
  /\ navStack # Nil
  /\ navStack.last.op = "Push"
  /\ navStack.last.len = maxHistory
  /\ Len(navStack.ns.history) = maxHistory
  /\ navStack.ns.current = maxHistory - 1

\* C32: Pop with current <= 0 reports failure and leaves the stack
\* unchanged; otherwise it reports success and the new Current() is the
\* screen Previous() returned before the call
C32_PopGoesToPrevious ==
  (navStack # Nil /\ navStack.last.op = "Pop") =>
    LET before == navStack.last.before
    IN IF before.current <= 0
       THEN ~navStack.last.ok /\ navStack.ns = before
       ELSE /\ navStack.last.ok
            /\ navStack.last.previous.ok
            /\ Current(navStack.ns) = navStack.last.previous

\* A Pop from the third screen went back to a second screen that differs
\* from the first
C32_Witness ==
  /\ navStack # Nil
  /\ navStack.last.op = "Pop"
  /\ navStack.last.ok
  /\ navStack.last.before.current >= 2
  /\ Current(navStack.ns).screen # navStack.ns.history[1]

\* ================================================================
\* ToastManager
\* ================================================================
\* Toasts one manager is asked to add in one run
MaxToasts == 7

\* NewToastManager's maxSize
maxSize == 5

\* A ToastExpireMsg{ID: id}, and a message of any other type
ToastExpireMsg(id) == [expire |-> TRUE, ID |-> id]
OtherMsg == [expire |-> FALSE, ID |-> 0]

\* NewToast(id, message, toastType), then Show()
NewToast(id) == [id |-> id, visible |-> TRUE]

\* NewToastManager()
NewToastManager == [toasts |-> <<>>, nextID |-> 1]

\* Mutant: a toast hides on every expire message
ToastUpdateAny(t, msg) ==
  IF msg.expire THEN [t EXCEPT !.visible = FALSE] ELSE t

\* ToastModel.Update(msg)
ToastUpdate(t, msg) ==
  IF msg.expire /\ msg.ID = t.id THEN [t EXCEPT !.visible = FALSE] ELSE t

\* Mutant: at capacity the newest toast is dropped
AddToastDropsNewest(tm) ==
  LET kept == IF Len(tm.toasts) >= maxSize
              THEN SubSeq(tm.toasts, 1, Len(tm.toasts) - 1) ELSE tm.toasts
  IN [toasts |-> Append(kept, NewToast(tm.nextID)), nextID |-> tm.nextID + 1]

\* tm.AddToast(message, toastType)
AddToast(tm) ==
  LET kept == IF Len(tm.toasts) >= maxSize THEN Tail(tm.toasts) ELSE tm.toasts
  IN [toasts |-> Append(kept, NewToast(tm.nextID)), nextID |-> tm.nextID + 1]

\* The toasts of a list that are visible, in the order of the list
VisibleToasts(toasts) == SelectSeq(toasts, LAMBDA t : t.visible)

\* tm.Update(msg)
ManagerUpdate(tm, msg) ==
  [tm EXCEPT !.toasts =
     VisibleToasts([i \in 1..Len(tm.toasts) |-> ToastUpdate(tm.toasts[i], msg)])]

\* The ids of the toasts of a list
ToastIDs(toasts) == { toasts[i].id : i \in 1..Len(toasts) }

\* The manager a caller holds, the ids it has given to toasts so far, in the
\* order of the AddToast calls, and the
\* last call: its name, its message and the manager before it
ToastState(tm, issued, last) == [tm |-> tm, issued |-> issued, last |-> last]

toastAtRest == <<scannerVars, call, ft, appModel, navStack, progressModel,
                 contextPreview, monitor>>

InitToast ==
  /\ ScannerAtRest
  /\ call = NoCall
  /\ ft = Nil
  /\ appModel = Nil
  /\ navStack = Nil
  /\ progressModel = Nil
  /\ contextPreview = Nil
  /\ monitor = Nil
  /\ toastManager = ToastState(NewToastManager, <<>>,
                               [op |-> "", msg |-> OtherMsg, before |-> Nil])

\* tm, cmd = tm.AddToast(message, toastType)
CallAddToast ==
  /\ toastManager.tm.nextID <= MaxToasts
  /\ toastManager' =
       ToastState(AddToast(toastManager.tm),
                  Append(toastManager.issued,
                         AddToast(toastManager.tm).toasts[
                           Len(AddToast(toastManager.tm).toasts)].id),
                  [op |-> "AddToast", msg |-> OtherMsg, before |-> toastManager.tm])
  /\ UNCHANGED toastAtRest

\* tm, cmd = tm.Update(ToastExpireMsg{ID: id}) for the tick of a toast that
\* was added
ExpireToast(id) ==
  /\ id \in Range(toastManager.issued)
  /\ toastManager' =
       ToastState(ManagerUpdate(toastManager.tm, ToastExpireMsg(id)),
                  toastManager.issued,
                  [op |-> "Update", msg |-> ToastExpireMsg(id),
                   before |-> toastManager.tm])
  /\ UNCHANGED toastAtRest

\* tm, cmd = tm.Update(msg) for a message of another type
UpdateOther ==
  /\ toastManager' =
       ToastState(ManagerUpdate(toastManager.tm, OtherMsg), toastManager.issued,
                  [op |-> "Update", msg |-> OtherMsg, before |-> toastManager.tm])
  /\ UNCHANGED toastAtRest

NextToast ==
  \/ CallAddToast
  \/ \E id \in 1..MaxToasts : ExpireToast(id)
  \/ UpdateOther

SpecToast == InitToast /\ [][NextToast]_vars

\* C33: a ToastManager holds at most maxSize toasts, and a toast added at
\* capacity evicts the oldest toast held, the one added first
C33_AtMostMaxSizeOldestEvicted ==
  toastManager # Nil =>
    /\ Len(toastManager.tm.toasts) <= maxSize
    /\ (toastManager.last.op = "AddToast"
        /\ Len(toastManager.last.before.toasts) >= maxSize) =>
         LET before == toastManager.last.before.toasts
             evicted == ToastIDs(before) \ ToastIDs(toastManager.tm.toasts)
         IN /\ evicted = { before[1].id }
            /\ \A id \in ToastIDs(before) : before[1].id <= id

\* A toast was added to a manager holding maxSize toasts
C33_Witness ==
  /\ toastManager # Nil
  /\ toastManager.last.op = "AddToast"
  /\ Len(toastManager.last.before.toasts) = maxSize
  /\ Len(toastManager.tm.toasts) = maxSize

\* C34: a ToastExpireMsg with ID k removes exactly the toast with id k if it
\* is held and leaves every other toast held and visible; an id is given to
\* one toast only, so the message of an evicted toast removes nothing
C34_ExpireRemovesExactlyThatToast ==
  toastManager # Nil =>
    LET last == toastManager.last
        now == toastManager.tm.toasts
    IN /\ (last.op = "Update" /\ last.msg.expire) =>
            /\ now = SelectSeq(last.before.toasts, LAMBDA t : t.id # last.msg.ID)
            /\ \A i \in 1..Len(now) : now[i].visible
       /\ \A i, j \in 1..Len(toastManager.issued) :
            toastManager.issued[i] = toastManager.issued[j] => i = j
       /\ \A i, j \in 1..Len(now) : now[i].id = now[j].id => i = j

\* The expire message of a held toast arrived while another toast was held
C34_Witness ==
  /\ toastManager # Nil
  /\ toastManager.last.op = "Update"
  /\ toastManager.last.msg.expire
  /\ toastManager.last.msg.ID \in ToastIDs(toastManager.last.before.toasts)
  /\ Len(toastManager.tm.toasts) >= 1

\* The expire message of a toast evicted earlier arrived
C34_EvictedExpired ==
  /\ toastManager # Nil
  /\ toastManager.last.op = "Update"
  /\ toastManager.last.msg.expire
  /\ toastManager.last.msg.ID \notin ToastIDs(toastManager.last.before.toasts)
  /\ Len(toastManager.tm.toasts) = maxSize

\* ================================================================
\* ProgressModel
\* ================================================================
\* Increment calls in one run
MaxIncrements == 3

\* The width of Go's int on a 32-bit target; on a 64-bit target the same
\* arithmetic wraps at 64 bits
IntBits == 32

\* 2^(IntBits / 2), the largest and the smallest int
HalfWord == 2 ^ (IntBits \div 2)
MaxInt == (((HalfWord \div 2) - 1) * HalfWord) + (HalfWord - 1)
MinInt == -MaxInt - 1

\* x + 1 in int arithmetic
PlusOne(x) == IF x = MaxInt THEN MinInt ELSE x + 1

\* x * 100 in int arithmetic, for x >= 0: the product modulo 2^IntBits, read
\* as a signed value, computed on the two halves of x
Times100(x) ==
  LET low == (x % HalfWord) * 100
      high == (((x \div HalfWord) * 100) + (low \div HalfWord)) % HalfWord
  IN IF high >= HalfWord \div 2
     THEN ((high - HalfWord) * HalfWord) + (low % HalfWord)
     ELSE (high * HalfWord) + (low % HalfWord)

\* a / b in int arithmetic for b > 0: the quotient truncated toward zero
Quotient(a, b) == IF a >= 0 THEN a \div b ELSE ((a + b) - 1) \div b

\* NewProgress(total, message)
NewProgress(total) == [current |-> 0, total |-> total]

\* p.SetProgress(current)
SetProgress(p, current) ==
  LET capped == IF current > p.total THEN p.total ELSE current
  IN [p EXCEPT !.current = IF capped < 0 THEN 0 ELSE capped]

\* p.Increment()
Increment(p) == SetProgress(p, PlusOne(p.current))

\* p.Percentage()
Percentage(p) ==
  IF p.total = 0 THEN 100 ELSE Quotient(Times100(p.current), p.total)

\* The totals a progress bar is created with and the values given to
\* SetProgress: small ones, the first total whose hundredfold is above MaxInt
\* and its neighbours, and the ends of int
OnePercentOfMax == MaxInt \div 100
ProgressTotals == { 0, 1, 3, 100, OnePercentOfMax, OnePercentOfMax + 1, MaxInt }
ProgressValues ==
  { MinInt, -1, 0, 1, 2, 50, 101, OnePercentOfMax, OnePercentOfMax + 1, MaxInt }

progressAtRest == <<scannerVars, call, ft, appModel, navStack, toastManager,
                    contextPreview, monitor>>

InitProgressModel ==
  /\ ScannerAtRest
  /\ call = NoCall
  /\ ft = Nil
  /\ appModel = Nil
  /\ navStack = Nil
  /\ toastManager = Nil
  /\ contextPreview = Nil
  /\ monitor = Nil
  /\ \E total \in ProgressTotals :
       progressModel = [p |-> NewProgress(total), increments |-> 0, op |-> ""]

\* p = p.SetProgress(current)
CallSetProgress(current) ==
  /\ progressModel' = [progressModel EXCEPT !.p = SetProgress(@, current),
                                            !.op = "SetProgress"]
  /\ UNCHANGED progressAtRest

\* p = p.Increment()
CallIncrement ==
  /\ progressModel.increments < MaxIncrements
  /\ progressModel' = [progressModel EXCEPT !.p = Increment(@),
                                            !.increments = @ + 1,
                                            !.op = "Increment"]
  /\ UNCHANGED progressAtRest

NextProgressModel ==
  \/ \E current \in ProgressValues : CallSetProgress(current)
  \/ CallIncrement

SpecProgressModel == InitProgressModel /\ [][NextProgressModel]_vars

\* C35: for a progress bar created with total >= 0, after any SetProgress
\* and Increment calls 0 <= current <= total and Percentage() is between 0
\* and 100
C35_ProgressWithinRange ==
  progressModel # Nil =>
    /\ 0 <= progressModel.p.current
    /\ progressModel.p.current <= progressModel.p.total
    /\ 0 <= Percentage(progressModel.p)
    /\ Percentage(progressModel.p) <= 100

\* The part of C35 about current alone
ProgressCurrentWithinRange ==
  progressModel # Nil =>
    0 <= progressModel.p.current /\ progressModel.p.current <= progressModel.p.total

\* ================================================================
\* startProjectScan: the scan and the goroutine that drains its progress
\* ================================================================
\* No statement of the program closes the progress channel
ProgressClosed == FALSE

\* Where the goroutine is: in its range loop, or past it
Ranging == [at |-> "range"]
Done == [at |-> "end"]

InitMonitor == InitOver(FileSystems, Configs)

\* startProjectScan's command creates the scanner and starts the goroutine
\* that ranges over GetProgressChannel()
StartMonitor ==
  /\ monitor = Nil
  /\ monitor' = Ranging
  /\ UNCHANGED <<scannerVars, call, ft, appModel, navStack, toastManager,
                 progressModel, contextPreview>>

\* The command calls scanner.Scan(), once
MonitoredScanBegin == monitor # Nil /\ ScanBegin(1)

\* One round of "for progress := range progressChan": the goroutine takes
\* the next event and drops it, or leaves the loop when the channel is
\* closed and empty; otherwise it waits
MonitorRange ==
  /\ monitor = Ranging
  /\ IF progress # <<>>
     THEN /\ progress' = Tail(progress)
          /\ delivered' = delivered \cup {Head(progress).n}
          /\ UNCHANGED monitor
     ELSE /\ ProgressClosed
          /\ monitor' = Done
          /\ UNCHANGED <<progress, delivered>>
  /\ UNCHANGED <<fs, config, cancel, pc, stack, result, fileInfo, estimated, ret,
                 scans, produced, dropped, visited, listed, records, cancelMid,
                 cancelInScan, call, ft, appModel, navStack, toastManager,
                 progressModel, contextPreview>>

\* Nobody holds the scanner to call Cancel()
NextMonitor ==
  \/ StartMonitor
  \/ MonitoredScanBegin
  \/ ScanEstimate
  \/ EnterTooDeep
  \/ EnterReadError
  \/ EnterListed
  \/ ProcessEntry
  \/ LoopDone
  \/ ScanFinish
  \/ MonitorRange

\* The command's goroutine and the monitor are both scheduled
SpecMonitor ==
  /\ InitMonitor
  /\ [][NextMonitor]_vars
  /\ WF_vars(StartMonitor)
  /\ WF_vars(MonitoredScanBegin)
  /\ WF_vars(ScanStep)
  /\ WF_vars(MonitorRange)

\* C37: once the scan started by startProjectScan has returned, with a
\* result or an error, the goroutine that drains the progress channel
\* eventually terminates
C37_MonitorTerminates == (Returned /\ monitor # Nil) ~> (monitor = Done)

\* The scan returned and the monitor has emptied the channel
MonitorDrained == Returned /\ monitor = Ranging /\ progress = <<>>

\* In every run the scan returns and the monitor empties the channel
MonitorDrains == <>[]MonitorDrained

\* ================================================================
\* ContextPreviewModel
\* ================================================================
\* Sections of the bundle a preview is opened on
MaxSections == 2

\* len(getDefaultTemplates())
NumTemplates == 5

\* The keys pressed on the preview; "x" stands for a key of one character
\* that has no case of its own
PreviewKeys ==
  { "esc", "up", "down", "left", "right", "enter", "e", "t", "r", "s",
    "home", "end", "ctrl+s", "ctrl+z", "x" }

\* NewContextPreviewModel(contextResult, scanResult) for a bundle of n
\* sections; fault names the function that indexed Sections out of range
NewContextPreviewModel(n) ==
  [sections |-> n, showFullContent |-> FALSE, currentSection |-> 0,
   editMode |-> FALSE, templateMode |-> FALSE, currentTemplate |-> 0,
   cursor |-> 0, fault |-> "", last |-> ""]

\* Sections[i] is an element of the slice
InRange(m, i) == 0 <= i /\ i < m.sections

\* The model after the function named by where has read or written
\* Sections[currentSection]
AccessSection(m, where) ==
  IF InRange(m, m.currentSection) THEN m ELSE [m EXCEPT !.fault = where]

\* ContextPreviewModel.handleEditMode
handleEditMode(m, key) ==
  IF key = "esc" THEN [m EXCEPT !.editMode = FALSE]
  ELSE IF key = "ctrl+s"
  THEN IF m.currentSection < m.sections
       THEN [AccessSection(m, "handleEditMode") EXCEPT !.editMode = FALSE]
       ELSE [m EXCEPT !.editMode = FALSE]
  ELSE m

\* ContextPreviewModel.handleTemplateMode
handleTemplateMode(m, key) ==
  IF key = "esc" THEN [m EXCEPT !.templateMode = FALSE]
  ELSE IF key = "up"
  THEN IF m.currentTemplate > 0 THEN [m EXCEPT !.currentTemplate = @ - 1] ELSE m
  ELSE IF key = "down"
  THEN IF m.currentTemplate < NumTemplates - 1
       THEN [m EXCEPT !.currentTemplate = @ + 1] ELSE m
  ELSE m

\* ContextPreviewModel.handleKeyPress
handleKeyPress(m, key) ==
  IF m.editMode THEN handleEditMode(m, key)
  ELSE IF m.templateMode THEN handleTemplateMode(m, key)
  ELSE IF key = "up"
  THEN IF m.cursor > 0 THEN [m EXCEPT !.cursor = @ - 1] ELSE m
  ELSE IF key = "down"
  THEN IF m.cursor < m.sections - 1 THEN [m EXCEPT !.cursor = @ + 1] ELSE m
  ELSE IF key = "left"
  THEN IF m.currentSection > 0 THEN [m EXCEPT !.currentSection = @ - 1] ELSE m
  ELSE IF key = "right"
  THEN IF m.currentSection < m.sections - 1
       THEN [m EXCEPT !.currentSection = @ + 1] ELSE m
  ELSE IF key = "enter" THEN [m EXCEPT !.showFullContent = ~@]
  ELSE IF key = "e"
  THEN IF m.currentSection < m.sections
       THEN [AccessSection(m, "handleKeyPress") EXCEPT !.editMode = TRUE]
       ELSE [m EXCEPT !.editMode = TRUE]
  ELSE IF key = "t" THEN [m EXCEPT !.templateMode = TRUE, !.currentTemplate = 0]
  ELSE IF key = "home" THEN [m EXCEPT !.cursor = 0, !.currentSection = 0]
  ELSE IF key = "end"
  THEN [m EXCEPT !.cursor = m.sections - 1, !.currentSection = m.sections - 1]
  ELSE m

\* ContextPreviewModel.View, as far as it indexes Sections: renderEditMode
\* in edit mode, renderContextPreview outside the two modes
View(m) ==
  IF m.editMode THEN AccessSection(m, "renderEditMode")
  ELSE IF m.templateMode THEN m
  ELSE IF m.sections = 0 THEN m
  ELSE AccessSection(m, "renderContextPreview")

previewAtRest == <<scannerVars, call, ft, appModel, navStack, toastManager,
                   progressModel, monitor>>

InitPreview ==
  /\ ScannerAtRest
  /\ call = NoCall
  /\ ft = Nil
  /\ appModel = Nil
  /\ navStack = Nil
  /\ toastManager = Nil
  /\ progressModel = Nil
  /\ monitor = Nil
  /\ \E n \in 0..MaxSections : contextPreview = NewContextPreviewModel(n)

\* The index out of range has not ended the program
PreviewRunning == contextPreview.fault = ""

\* m.Update(tea.KeyMsg) for a key
PreviewKey(key) ==
  /\ PreviewRunning
  /\ contextPreview' = [handleKeyPress(contextPreview, key) EXCEPT !.last = key]
  /\ UNCHANGED previewAtRest

\* The application draws the preview
PreviewView ==
  /\ PreviewRunning
  /\ contextPreview' = [View(contextPreview) EXCEPT !.last = "View"]
  /\ UNCHANGED previewAtRest

NextPreview ==
  \/ \E key \in PreviewKeys : PreviewKey(key)
  \/ PreviewView

SpecPreview == InitPreview /\ [][NextPreview]_vars

\* C40: after any sequence of key presses on a ContextPreviewModel, also one
\* of zero sections, cursor and currentSection are not negative and every
\* access to Sections[currentSection] is within bounds
C40_PreviewIndicesInBounds ==
  contextPreview # Nil =>
    /\ contextPreview.cursor >= 0
    /\ contextPreview.currentSection >= 0
    /\ contextPreview.fault = ""

\* With at least one section the indices stay within the sections
PreviewInBoundsWithSections ==
  (contextPreview # Nil /\ contextPreview.sections > 0) =>
    /\ InRange(contextPreview, contextPreview.cursor)
    /\ InRange(contextPreview, contextPreview.currentSection)
    /\ contextPreview.fault = ""
====
